---------------------------- MODULE Spec2Model ----------------------------
(***************************************************************************)
(* Model of the signal-generation core of technical-only-analysis:         *)
(*   - TechnicalAnalysis.generate_signals      (the signal voter)          *)
(*   - SupportResistanceCalculator             (levels, target, stop)      *)
(*   - OptionsAnalysis.find_atm_strike / select_option_strike              *)
(* Each component is a function of its inputs; every specification draws   *)
(* the inputs in its initial states and applies the operation in one step. *)
(***************************************************************************)
EXTENDS Integers, Sequences, FiniteSets, TLC

VARIABLES
    pc,          \* "start" before the operation has run, "done" after it
    df,          \* the indicator frame handed to generate_signals
    result,      \* what generate_signals returned
    sr_df,       \* the frame handed to the support/resistance calculator
    sr_args,     \* signal and confidence handed to find_target_and_stop_loss
    sr_out,      \* what the support/resistance calculator returned
    opt_args,    \* current_price and signal handed to the options analysis
    opt_out,     \* what the options analysis returned
    opt_env,     \* the clock and the broker's answers seen by analyze_option
    opt_cache,   \* LiveDataFetcher's option-chain cache: expiry -> saved rows
    opt_first,   \* what the first of two analyze_option runs returned
    gen_args,    \* data and collaborator behaviour handed to generate_signal
    gen_out,     \* what generate_signal returned, or that it raised
    stocks,      \* main: the stocks list
    world,       \* main: per symbol, how fetching and analysis behave
    pos,         \* main: position of the running loop in the stocks list
    historical_data, \* main: the symbols whose data was fetched
    signals,     \* main: symbol -> record, in the order generated
    output,      \* main: the records written to the output files, or None
    exit_code,   \* main: None while running or after a normal return, else the code
    fn_args,     \* the arguments of the helper function under study
    fn_out,      \* what that function returned
    rl_calls,    \* rate limiter: the decorator's list of recorded call times
    rl_now,      \* rate limiter: the clock, in seconds
    rl_log       \* rate limiter: the times the wrapped function was invoked

analyze_vars == <<opt_env, opt_cache, opt_first>>
generate_vars == <<gen_args, gen_out>>
main_vars == <<stocks, world, pos, historical_data, signals, output, exit_code>>
helper_vars == <<fn_args, fn_out, rl_calls, rl_now, rl_log>>

vars == <<pc, df, result, sr_df, sr_args, sr_out, opt_args, opt_out,
          analyze_vars, generate_vars, main_vars, helper_vars>>

(***************************************************************************)
(* Exact arithmetic helpers.  A rational is a pair <<numerator,            *)
(* denominator>> with a positive denominator.                              *)
(***************************************************************************)
Abs(x) == IF x < 0 THEN -x ELSE x

\* Python's round(num / den) for den > 0: nearest integer, ties to even.
PyRound(num, den) ==
    LET q == num \div den          \* floor
        r == num % den             \* 0 <= r < den
    IN  IF 2 * r < den THEN q
        ELSE IF 2 * r > den THEN q + 1
        ELSE IF q % 2 = 0 THEN q ELSE q + 1

(***************************************************************************)
(* TechnicalAnalysis.generate_signals                                      *)
(*                                                                         *)
(* The frame is described by its length n, by whether it carries the       *)
(* 'volume' and 'volume_sma' columns, by the latest row's indicator values *)
(* and by the previous row's close.                                        *)
(***************************************************************************)

\* 1. RSI
RsiVote(latest) ==
    IF latest.rsi < 30 THEN "BUY"
    ELSE IF latest.rsi > 70 THEN "SELL"
    ELSE "HOLD"

\* 2. MACD against its signal line
MacdVote(latest) ==
    IF latest.macd > latest.macd_signal THEN "BUY"
    ELSE IF latest.macd < latest.macd_signal THEN "SELL"
    ELSE "HOLD"

\* 3. ADX (trend strength), direction from +DI against -DI
AdxVote(latest) ==
    IF latest.adx > 25
    THEN IF latest.adx_pos > latest.adx_neg THEN "BUY" ELSE "SELL"
    ELSE "HOLD"

\* 4. Moving averages
MaVote(latest) ==
    IF latest.close > latest.sma_50 /\ latest.sma_50 > latest.sma_200 THEN "BUY"
    ELSE IF latest.close < latest.sma_50 /\ latest.sma_50 < latest.sma_200 THEN "SELL"
    ELSE "HOLD"

\* 5. Bollinger bands
BbVote(latest) ==
    IF latest.close <= latest.bb_lower THEN "BUY"
    ELSE IF latest.close >= latest.bb_upper THEN "SELL"
    ELSE "HOLD"

\* 6. Stochastic oscillator
StochVote(latest) ==
    IF latest.stoch_k < 20 /\ latest.stoch_d < 20 THEN "BUY"
    ELSE IF latest.stoch_k > 80 /\ latest.stoch_d > 80 THEN "SELL"
    ELSE "HOLD"

\* 7. Price against EMA21
EmaVote(latest) ==
    IF latest.close > latest.ema_21 THEN "BUY"
    ELSE IF latest.close < latest.ema_21 THEN "SELL"
    ELSE "HOLD"

\* 8. Volatility breakout: price_change > 1.5 * atr, only with two rows
VolatilityVote(f) ==
    IF f.n > 1
    THEN IF 2 * Abs(f.latest.close - f.prev_close) > 3 * f.latest.atr
         THEN IF f.latest.close > f.prev_close THEN "BUY" ELSE "SELL"
         ELSE "HOLD"
    ELSE "HOLD"

\* volume > 1.5 * volume_sma
VolumeSpike(latest) == 2 * latest.volume > 3 * latest.volume_sma

\* 9. Volume: df.iloc[-2] is read only when the volume test passed (the
\* 'and' short-circuits); on a one-row frame that read raises IndexError.
VolumeRaises(f) == f.has_volume /\ VolumeSpike(f.latest) /\ f.n < 2

VolumeVoteIgnoringColumns(f) ==
    IF VolumeSpike(f.latest) /\ f.latest.close > f.prev_close THEN "BUY"
    ELSE IF VolumeSpike(f.latest) /\ f.latest.close < f.prev_close THEN "SELL"
    ELSE "HOLD"
VolumeVote(f) ==
    IF f.has_volume
    THEN IF VolumeSpike(f.latest) /\ f.latest.close > f.prev_close THEN "BUY"
         ELSE IF VolumeSpike(f.latest) /\ f.latest.close < f.prev_close THEN "SELL"
         ELSE "HOLD"
    ELSE "HOLD"

\* 10. Technical trend score
TrendVote(latest) ==
    IF latest.technical_trend_score > 70 THEN "BUY"
    ELSE IF latest.technical_trend_score < 30 THEN "SELL"
    ELSE "HOLD"

\* The ten sub-signals' votes, in the order the code evaluates them.
Votes(f) ==
    << RsiVote(f.latest), MacdVote(f.latest), AdxVote(f.latest),
       MaVote(f.latest), BbVote(f.latest), StochVote(f.latest),
       EmaVote(f.latest), VolatilityVote(f), VolumeVote(f),
       TrendVote(f.latest) >>

CountVotes(f, side) == Cardinality({i \in DOMAIN Votes(f) : Votes(f)[i] = side})

BuySignals(f) == CountVotes(f, "BUY")
SellSignals(f) == CountVotes(f, "SELL")

\* total_signals starts at 10 and loses the volume sub-signal without volume data
TotalSignalsAlwaysTen(f) == 10
TotalSignals(f) == IF f.has_volume THEN 10 ELSE 10 - 1

\* Overall signal and confidence; x > total * 0.3 is 10 * x > 3 * total.
AggregateAtThreshold(buy, sell, total) ==
    IF buy > sell /\ 10 * buy >= 3 * total
    THEN [signal |-> "BUY", confidence |-> <<buy * 100, total>>]
    ELSE IF sell > buy /\ 10 * sell >= 3 * total
    THEN [signal |-> "SELL", confidence |-> <<sell * 100, total>>]
    ELSE [signal |-> "HOLD", confidence |-> <<50, 1>>]
AggregateHoldSplit(buy, sell, total) ==
    IF buy > sell /\ 10 * buy > 3 * total
    THEN [signal |-> "BUY", confidence |-> <<buy * 100, total>>]
    ELSE IF sell > buy /\ 10 * sell > 3 * total
    THEN [signal |-> "SELL", confidence |-> <<sell * 100, total>>]
    ELSE [signal |-> "HOLD",
          confidence |-> <<(IF buy > sell THEN buy ELSE sell) * 100, total>>]
Aggregate(buy, sell, total) ==
    IF buy > sell /\ 10 * buy > 3 * total
    THEN [signal |-> "BUY", confidence |-> <<buy * 100, total>>]
    ELSE IF sell > buy /\ 10 * sell > 3 * total
    THEN [signal |-> "SELL", confidence |-> <<sell * 100, total>>]
    ELSE [signal |-> "HOLD", confidence |-> <<50, 1>>]

\* generate_signals: (signal, confidence), or the exception it raises
generate_signals(f) ==
    IF f.n = 0
    THEN [raised |-> FALSE, signal |-> "HOLD", confidence |-> <<0, 1>>]
    ELSE IF VolumeRaises(f)
    THEN [raised |-> TRUE, signal |-> "IndexError", confidence |-> <<0, 1>>]
    ELSE LET a == Aggregate(BuySignals(f), SellSignals(f), TotalSignals(f))
         IN  [raised |-> FALSE, signal |-> a.signal, confidence |-> a.confidence]

(***************************************************************************)
(* SupportResistanceCalculator                                             *)
(*                                                                         *)
(* Prices are integers counted in ticks; Grain ticks make 0.01, the unit   *)
(* round(x, 2) rounds to.  Bar prices are multiples of Grain; ATR values   *)
(* and cluster means need not be.  A frame is its sequence of bars (low,   *)
(* high), the latest close, and the latest 'atr' value when the column     *)
(* exists.  None is the empty tuple and a present value v is <<v>>.        *)
(***************************************************************************)
Grain == 4

None == <<>>
Some(v) == <<v>>

Window == 10          \* find_local_extrema(df, window=10)
RecentRows == 20      \* df.iloc[-20:]
MaxLevels == 3        \* max_levels=3
ThresholdPct == 1     \* threshold_pct=1.0

Min(a, b) == IF a < b THEN a ELSE b
Max(a, b) == IF a > b THEN a ELSE b

\* round(x, 2) of the rational x = num / den ticks, in ticks
Round2(num, den) == PyRound(num, den * Grain) * Grain

RECURSIVE Insert(_, _)
Insert(x, sorted) ==
    IF sorted = <<>> \/ x <= Head(sorted)
    THEN <<x>> \o sorted
    ELSE <<Head(sorted)>> \o Insert(x, Tail(sorted))

\* sorted(levels)
RECURSIVE Sorted(_)
Sorted(levels) ==
    IF levels = <<>> THEN <<>> ELSE Insert(Head(levels), Sorted(Tail(levels)))

Reverse(seq) == [i \in 1..Len(seq) |-> seq[Len(seq) + 1 - i]]
Take(seq, k) == SubSeq(seq, 1, Min(k, Len(seq)))

RatLess(a, b) == a[1] * b[2] < b[1] * a[2]

RECURSIVE InsertRat(_, _)
InsertRat(x, sorted) ==
    IF sorted = <<>> \/ ~RatLess(Head(sorted), x)
    THEN <<x>> \o sorted
    ELSE <<Head(sorted)>> \o InsertRat(x, Tail(sorted))

\* sorted(...) of cluster means
RECURSIVE SortedRat(_)
SortedRat(levels) ==
    IF levels = <<>> THEN <<>>
    ELSE InsertRat(Head(levels), SortedRat(Tail(levels)))

\* argrelextrema(values, cmp, order=window), mode 'clip': index i is kept when
\* cmp(values[i], values[j]) for both neighbours j at every shift 1..window,
\* the neighbour index being clipped to the ends of the array.
ClipIndex(i, n) == Max(1, Min(n, i))

IsLocalMin(values, i) ==
    \A k \in 1..Window :
        /\ values[i] <= values[ClipIndex(i + k, Len(values))]
        /\ values[i] <= values[ClipIndex(i - k, Len(values))]

IsLocalMax(values, i) ==
    \A k \in 1..Window :
        /\ values[i] >= values[ClipIndex(i + k, Len(values))]
        /\ values[i] >= values[ClipIndex(i - k, Len(values))]

Lows(bars) == [i \in 1..Len(bars) |-> bars[i].low]
Highs(bars) == [i \in 1..Len(bars) |-> bars[i].high]

RECURSIVE Keep(_, _, _)
Keep(values, idx, i) ==
    IF i > Len(values) THEN <<>>
    ELSE (IF i \in idx THEN <<values[i]>> ELSE <<>>) \o Keep(values, idx, i + 1)

\* find_local_extrema: the lows of the minima rows and the highs of the maxima rows
find_local_extrema(bars) ==
    [minima |-> Keep(Lows(bars),
                     {i \in 1..Len(bars) : IsLocalMin(Lows(bars), i)}, 1),
     maxima |-> Keep(Highs(bars),
                     {i \in 1..Len(bars) : IsLocalMax(Highs(bars), i)}, 1)]

\* cluster_levels: the loop over sorted_levels[i..], with the clusters emitted
\* so far and the members of the current cluster; a mean is <<sum, count>>.
Sum(seq) == LET RECURSIVE S(_)
                S(i) == IF i = 0 THEN 0 ELSE seq[i] + S(i - 1)
            IN  S(Len(seq))
Mean(cluster) == <<Sum(cluster), Len(cluster)>>

\* variant: a gap equal to the threshold starts a new cluster
SameClusterBelowThreshold(prev_level, current_level, threshold_pct) ==
    100 * (current_level - prev_level) < prev_level * threshold_pct

\* current_level - prev_level <= prev_level * threshold_pct / 100
SameCluster(prev_level, current_level, threshold_pct) ==
    100 * (current_level - prev_level) <= prev_level * threshold_pct

RECURSIVE ClusterLoop(_, _, _, _, _)
ClusterLoop(sorted_levels, i, clusters, current_cluster, threshold_pct) ==
    IF i > Len(sorted_levels)
    THEN Append(clusters, Mean(current_cluster))
    ELSE LET current_level == sorted_levels[i]
             prev_level == current_cluster[Len(current_cluster)]
         IN  IF SameCluster(prev_level, current_level, threshold_pct)
             THEN ClusterLoop(sorted_levels, i + 1, clusters,
                              Append(current_cluster, current_level), threshold_pct)
             ELSE ClusterLoop(sorted_levels, i + 1,
                              Append(clusters, Mean(current_cluster)),
                              <<current_level>>, threshold_pct)

cluster_levels(levels, threshold_pct) ==
    IF levels = <<>> THEN <<>>
    ELSE LET sorted_levels == Sorted(levels)
         IN  ClusterLoop(sorted_levels, 2, <<>>, <<sorted_levels[1]>>, threshold_pct)

\* df['atr'].iloc[-1] if 'atr' in df.columns else high - low of the last bar
LatestAtr(f) ==
    IF f.has_atr THEN f.atr
    ELSE f.bars[Len(f.bars)].high - f.bars[Len(f.bars)].low

SupportCandidates(f) ==
    LET recent == SubSeq(f.bars, Max(1, Len(f.bars) - RecentRows + 1), Len(f.bars))
    IN  find_local_extrema(f.bars).minima
        \o Take(Sorted(Lows(recent)), 3)
        \o <<f.close - LatestAtr(f), f.close - 2 * LatestAtr(f)>>

ResistanceCandidates(f) ==
    LET recent == SubSeq(f.bars, Max(1, Len(f.bars) - RecentRows + 1), Len(f.bars))
    IN  find_local_extrema(f.bars).maxima
        \o Take(Reverse(Sorted(Highs(recent))), 3)
        \o <<f.close + LatestAtr(f), f.close + 2 * LatestAtr(f)>>

RoundLevels(levels) == [i \in 1..Len(levels) |-> Round2(levels[i][1], levels[i][2])]

\* level < latest_price for a cluster mean
BelowClose(level, close) == level[1] < close * level[2]
AboveClose(level, close) == level[1] > close * level[2]

\* calculate_support_resistance: (support_levels, resistance_levels), in ticks
calculate_support_resistance(f) ==
    IF Len(f.bars) = 0 \/ ~f.has_close
    THEN [support |-> <<>>, resistance |-> <<>>]
    ELSE LET support_levels == cluster_levels(SupportCandidates(f), ThresholdPct)
             resistance_levels == cluster_levels(ResistanceCandidates(f), ThresholdPct)
             below == SelectSeq(support_levels, LAMBDA level : BelowClose(level, f.close))
             above == SelectSeq(resistance_levels, LAMBDA level : AboveClose(level, f.close))
         IN  [support |-> RoundLevels(Take(Reverse(SortedRat(below)), MaxLevels)),
              resistance |-> RoundLevels(Take(SortedRat(above), MaxLevels))]

\* days_to_target: max(round(price_distance / daily_volatility), 1) when the
\* volatility is positive, then max(days, round(100 / confidence)) when the
\* confidence <<num, den>> is positive.
DaysNoConfidenceFloor(price_distance, daily_volatility, confidence) ==
    IF daily_volatility > 0
    THEN PyRound(price_distance, daily_volatility)
    ELSE 1
DaysToTarget(price_distance, daily_volatility, confidence) ==
    LET by_distance == IF daily_volatility > 0
                       THEN Max(PyRound(price_distance, daily_volatility), 1)
                       ELSE 1
    IN  IF confidence[1] > 0
        THEN Max(by_distance, PyRound(100 * confidence[2], confidence[1]))
        ELSE by_distance

\* The target and the stop before rounding, from the levels found.
PickTargetStopHoldUsesLevels(f, signal, levels) ==
    LET first_resistance == IF levels.resistance # <<>> THEN levels.resistance[1]
                            ELSE f.close + LatestAtr(f)
        first_support == IF levels.support # <<>> THEN levels.support[1]
                         ELSE f.close - LatestAtr(f)
    IN  IF signal = "SELL"
        THEN [target |-> first_support, stop |-> first_resistance]
        ELSE [target |-> first_resistance, stop |-> first_support]
PickTargetStop(f, signal, levels) ==
    LET first_resistance == IF levels.resistance # <<>> THEN levels.resistance[1]
                            ELSE f.close + LatestAtr(f)
        first_support == IF levels.support # <<>> THEN levels.support[1]
                         ELSE f.close - LatestAtr(f)
    IN  IF signal = "BUY"
        THEN [target |-> first_resistance, stop |-> first_support]
        ELSE IF signal = "SELL"
        THEN [target |-> first_support, stop |-> first_resistance]
        ELSE [target |-> f.close + LatestAtr(f), stop |-> f.close - LatestAtr(f)]

\* find_target_and_stop_loss: the tuple returned, with the levels it computed
\* on the way.  The empty frame returns three values, every other path four:
\* (target_price, stop_loss, risk_reward, days_to_target); risk_reward is
\* counted in hundredths.  A frame without its 'close' column fails inside
\* the try block, after calculate_support_resistance returned empty lists.
find_target_and_stop_loss(f, signal, confidence) ==
    IF Len(f.bars) = 0
    THEN [levels |-> [support |-> <<>>, resistance |-> <<>>],
          ret |-> <<None, None, 1>>]
    ELSE IF ~f.has_close
    THEN [levels |-> calculate_support_resistance(f),
          ret |-> <<None, None, 0, 1>>]
    ELSE LET levels == calculate_support_resistance(f)
             pick == PickTargetStop(f, signal, levels)
             risk == Abs(f.close - pick.stop)
             reward == Abs(pick.target - f.close)
             risk_reward == IF risk > 0 THEN PyRound(100 * reward, risk) ELSE 0
             days_to_target == DaysToTarget(Abs(pick.target - f.close),
                                            LatestAtr(f), confidence)
         IN  [levels |-> levels,
              ret |-> << Some(Round2(pick.target, 1)), Some(Round2(pick.stop, 1)),
                         risk_reward, days_to_target >>]

(***************************************************************************)
(* OptionsAnalysis.find_atm_strike and select_option_strike                *)
(*                                                                         *)
(* Prices and strikes are integers counted in units of 1/PriceScale rupee, *)
(* so that prices halfway between two strikes exist.                       *)
(***************************************************************************)
PriceScale == 2

Rupees(r) == r * PriceScale

\* round(current_price / step) * step
RoundToStep(current_price, step) ==
    PyRound(current_price, Rupees(step)) * Rupees(step)

FindAtmStrikeFifty(current_price) ==
    IF current_price < Rupees(1000) THEN RoundToStep(current_price, 50)
    ELSE IF current_price < Rupees(5000) THEN RoundToStep(current_price, 100)
    ELSE RoundToStep(current_price, 500)
find_atm_strike(current_price) ==
    IF current_price < Rupees(1000) THEN RoundToStep(current_price, 5)
    ELSE IF current_price < Rupees(5000) THEN RoundToStep(current_price, 100)
    ELSE RoundToStep(current_price, 500)

\* the option type: from the signal, for HOLD from the price against the ATM strike
OptionTypeAtOrAbove(signal, current_price, atm_strike) ==
    IF signal = "BUY" THEN "CE"
    ELSE IF signal = "SELL" THEN "PE"
    ELSE IF current_price >= atm_strike THEN "CE" ELSE "PE"
OptionType(signal, current_price, atm_strike) ==
    IF signal = "BUY" THEN "CE"
    ELSE IF signal = "SELL" THEN "PE"
    ELSE IF current_price > atm_strike THEN "CE" ELSE "PE"

\* the distance of the selected strike from the ATM strike
StrikeOffset(current_price) ==
    IF current_price < Rupees(1000) THEN Rupees(50) ELSE Rupees(100)

\* select_option_strike: (selected_strike, option_type, atm_strike)
select_option_strike(current_price, signal) ==
    LET atm_strike == find_atm_strike(current_price)
        option_type == OptionType(signal, current_price, atm_strike)
        selected_strike == IF option_type = "CE"
                           THEN atm_strike + StrikeOffset(current_price)
                           ELSE atm_strike - StrikeOffset(current_price)
    IN  <<selected_strike, option_type, atm_strike>>

(***************************************************************************)
(* OptionsAnalysis.get_nearest_expiry                                      *)
(*                                                                         *)
(* A date is a record [year, month, day] of the proleptic Gregorian        *)
(* calendar, as datetime.date is; date arithmetic goes through the ordinal *)
(* (day 1 is 0001-01-01, a Monday).                                        *)
(***************************************************************************)
Years == {2024, 2025}
\* the years a computed date can fall in: an expiry may lie in the next year
CalendarYears == Years \cup {y + 1 : y \in Years}

IsLeap(y) == (y % 4 = 0) /\ ((y % 100 # 0) \/ (y % 400 = 0))

DaysInMonth(y, m) ==
    IF m = 2 THEN (IF IsLeap(y) THEN 29 ELSE 28)
    ELSE IF m \in {4, 6, 9, 11} THEN 30 ELSE 31

DaysBeforeYear(y) ==
    (y - 1) * 365 + ((y - 1) \div 4) - ((y - 1) \div 100) + ((y - 1) \div 400)

RECURSIVE DaysBeforeMonth(_, _)
DaysBeforeMonth(y, m) ==
    IF m = 1 THEN 0 ELSE DaysBeforeMonth(y, m - 1) + DaysInMonth(y, m - 1)

Date(y, m, d) == [year |-> y, month |-> m, day |-> d]

\* date.toordinal()
toordinal(date) ==
    DaysBeforeYear(date.year) + DaysBeforeMonth(date.year, date.month) + date.day

\* date.fromordinal(n), for ordinals within CalendarYears
fromordinal(n) ==
    LET y == CHOOSE yy \in CalendarYears :
                 DaysBeforeYear(yy) < n /\ n <= DaysBeforeYear(yy + 1)
        m == CHOOSE mm \in 1..12 :
                 /\ DaysBeforeYear(y) + DaysBeforeMonth(y, mm) < n
                 /\ n <= DaysBeforeYear(y) + DaysBeforeMonth(y, mm) + DaysInMonth(y, mm)
    IN  Date(y, m, n - DaysBeforeYear(y) - DaysBeforeMonth(y, m))

\* date.weekday(): Monday is 0, Thursday is 3
weekday(date) == (toordinal(date) + 6) % 7

\* date - datetime.timedelta(days=k)
MinusDays(date, k) == fromordinal(toordinal(date) - k)

\* date comparison a > b
DateAfter(a, b) == toordinal(a) > toordinal(b)

\* datetime.date(year + 1, 1, 1) in December, else datetime.date(year, month + 1, 1)
FirstOfNextMonth(date) ==
    IF date.month = 12 THEN Date(date.year + 1, 1, 1)
    ELSE Date(date.year, date.month + 1, 1)

\* last_day - timedelta(days=(last_day.weekday() - 3) % 7)
LastThursdayUpTo(last_day) == MinusDays(last_day, (weekday(last_day) - 3) % 7)

\* variant: the current month's last Thursday, also when it has passed
GetNearestExpiryNeverRolls(today) ==
    LastThursdayUpTo(MinusDays(FirstOfNextMonth(today), 1))

\* get_nearest_expiry: only the date of now() is read, never the time of day
get_nearest_expiry(today) ==
    LET next_month == FirstOfNextMonth(today)
        last_day == MinusDays(next_month, 1)
        monthly_expiry == LastThursdayUpTo(last_day)
    IN  IF DateAfter(today, monthly_expiry)
        THEN LET next_next_month == FirstOfNextMonth(next_month)
                 last_day_next_month == MinusDays(next_next_month, 1)
             IN  LastThursdayUpTo(last_day_next_month)
        ELSE monthly_expiry

(***************************************************************************)
(* OptionsAnalysis.get_option_trading_symbol                               *)
(*                                                                         *)
(* The class body defines the method twice; the second definition          *)
(* replaces the first, so it is the one analyze_option calls.  A trading   *)
(* symbol is the record of the parts the f-string concatenates; the expiry *)
(* part holds the fields strftime writes, with day None when the format    *)
(* has no %d.  A missing string argument is "".                            *)
(***************************************************************************)
MonthAbbr ==
    << "JAN", "FEB", "MAR", "APR", "MAY", "JUN",
       "JUL", "AUG", "SEP", "OCT", "NOV", "DEC" >>

\* expiry_date.strftime('%b').upper() followed by expiry_date.strftime('%y')
StrftimeMonYY(date) ==
    [day |-> None, month |-> MonthAbbr[date.month], year |-> date.year % 100]

\* expiry_date.strftime('%d%b%y').upper()
StrftimeDDMonYY(date) ==
    [day |-> Some(date.day), month |-> MonthAbbr[date.month], year |-> date.year % 100]

\* expiry_date.strftime('%Y-%m-%d')
StrftimeIso(date) == <<date.year, date.month, date.day>>

\* the first definition in the class body (monthly format), shadowed by the second
get_option_trading_symbol_monthly(symbol, strike, option_type, expiry_date) ==
    IF symbol = "" \/ strike = 0 \/ option_type = "" THEN None
    ELSE Some([symbol |-> symbol, expiry |-> StrftimeMonYY(expiry_date),
               strike |-> strike, option_type |-> option_type])

\* the second definition in the class body: the method the class ends up with
get_option_trading_symbol(symbol, strike, option_type, expiry_date) ==
    IF symbol = "" \/ strike = 0 \/ option_type = "" THEN None
    ELSE Some([symbol |-> symbol, expiry |-> StrftimeDDMonYY(expiry_date),
               strike |-> strike, option_type |-> option_type])

(***************************************************************************)
(* OptionsAnalysis._determine_option_signal                                *)
(***************************************************************************)
DetermineOptionSignalHoldIsHold(stock_signal, option_type) ==
    IF stock_signal = "" \/ option_type = "" THEN "HOLD"
    ELSE IF stock_signal = "BUY"
         THEN (IF option_type = "CE" THEN "Buy CALL Option" ELSE "Sell PUT Option")
    ELSE IF stock_signal = "SELL"
         THEN (IF option_type = "PE" THEN "Buy PUT Option" ELSE "Sell CALL Option")
    ELSE "HOLD"
_determine_option_signal(stock_signal, option_type) ==
    IF stock_signal = "" \/ option_type = "" THEN "HOLD"
    ELSE IF stock_signal = "BUY"
         THEN (IF option_type = "CE" THEN "Buy CALL Option" ELSE "Sell PUT Option")
    ELSE IF stock_signal = "SELL"
         THEN (IF option_type = "PE" THEN "Buy PUT Option" ELSE "Sell CALL Option")
    ELSE (IF option_type = "CE" THEN "Buy CALL Option" ELSE "Buy PUT Option")

(***************************************************************************)
(* LiveDataFetcher.get_live_option_chain and its file cache                *)
(*                                                                         *)
(* The broker (kite) is described by what it lists and quotes.  A frame    *)
(* is the sequence of its rows; a row is a record whose fields are the     *)
(* frame's columns.  Option prices are integers counted in paise (0.01).   *)
(* Times are seconds.  The cache maps an expiry (the key of the cache file *)
(* name) to the saved timestamp and rows.                                  *)
(***************************************************************************)
CacheLifetime == 3600      \* seconds a cache file stays valid

\* kite.instruments("NFO") filtered to the symbol: None when the call raises
kite_instruments(env) ==
    IF env.broker = "api_error" THEN None ELSE Some(env.listed)

\* kite.quote(chunk): the quotes of the listed contracts, none when the call raises
kite_quote(env, instruments) ==
    IF env.broker = "quote_error" THEN <<>> ELSE instruments

\* quote.get('oi', 0) / 1000 if quote.get('oi', 0) > 0 else 0, as a rational
ApproxIv(oi) == IF oi > 0 THEN <<oi, 1000>> ELSE <<0, 1>>

\* the row get_live_option_chain builds from an instrument and its quote
ChainRow(inst) ==
    [strike |-> inst.strike, type |-> inst.instrument_type,
     expiry |-> [date |-> inst.expiry],
     last_price |-> inst.last_price, volume |-> inst.volume,
     open_interest |-> inst.oi, iv |-> ApproxIv(inst.oi)]

RowsOf(instruments) == [k \in 1..Len(instruments) |-> ChainRow(instruments[k])]

\* record[column] = value.isoformat() for dates, value otherwise: every
\* column is kept, the expiry becomes the string of its year, month and day
ToCacheRecord(row) ==
    [row EXCEPT !.expiry = [iso |-> StrftimeIso(row.expiry.date)]]

\* pd.to_datetime on the saved expiry string: a timestamp at midnight
FromCacheRecord(record) ==
    [record EXCEPT !.expiry =
        [timestamp |-> <<record.expiry.iso[1], record.expiry.iso[2],
                         record.expiry.iso[3], 0, 0, 0>>]]

\* _save_option_data_to_cache keeping only the quote columns
SaveDropsContractColumns(cache, option_data, expiry_date, now) ==
    IF option_data = <<>> THEN cache
    ELSE (expiry_date :>
             [timestamp |-> now,
              data |-> [k \in 1..Len(option_data) |->
                           [last_price |-> option_data[k].last_price,
                            volume |-> option_data[k].volume,
                            open_interest |-> option_data[k].open_interest]]])
         @@ cache
\* _save_option_data_to_cache: an empty frame is not saved
_save_option_data_to_cache(cache, option_data, expiry_date, now) ==
    IF option_data = <<>> THEN cache
    ELSE (expiry_date :>
             [timestamp |-> now,
              data |-> [k \in 1..Len(option_data) |-> ToCacheRecord(option_data[k])]])
         @@ cache

\* _load_cached_option_data (the second definition, which the class keeps):
\* None without a file or with a file older than an hour
_load_cached_option_data(cache, expiry_date, now) ==
    IF expiry_date \notin DOMAIN cache THEN None
    ELSE IF now - cache[expiry_date].timestamp <= CacheLifetime
         THEN LET data == cache[expiry_date].data
              IN  Some([k \in 1..Len(data) |->
                          IF "expiry" \in DOMAIN data[k]
                          THEN FromCacheRecord(data[k]) ELSE data[k]])
         ELSE None

\* what get_live_option_chain hands back: it raised, or a frame and the cache
ChainResult(raised, frame, cache) ==
    [raised |-> raised, frame |-> frame, cache |-> cache]

\* sorted(set(expiries))[0]: the earliest listed expiry
EarliestExpiry(instruments) ==
    CHOOSE e \in {instruments[k].expiry : k \in 1..Len(instruments)} :
        \A k \in 1..Len(instruments) : ~DateAfter(e, instruments[k].expiry)

WithExpiry(instruments, expiry) ==
    SelectSeq(instruments,
              LAMBDA inst : inst.expiry = expiry /\ inst.instrument_type \in {"CE", "PE"})

\* get_live_option_chain(symbol, expiry_date) at time now.  The cache file
\* is looked up before the try block, so a cache directory that cannot be
\* read raises out of the call; every failure inside the try block gives
\* the empty frame.  Listings here stay below max_instruments.
get_live_option_chain(env, cache, expiry_date, now) ==
    IF env.broker = "cache_error" THEN ChainResult(TRUE, <<>>, cache)
    ELSE
    LET cached_data == _load_cached_option_data(cache, expiry_date, now)
    IN  IF cached_data # None /\ cached_data[1] # <<>>
        THEN ChainResult(FALSE, cached_data[1], cache)
        ELSE
        LET instruments == kite_instruments(env)
        IN  IF instruments = None \/ instruments = Some(<<>>)
            THEN ChainResult(FALSE, <<>>, cache)
            ELSE
            LET symbol_instruments == instruments[1]
                requested == WithExpiry(symbol_instruments, expiry_date)
                alternative_expiry == EarliestExpiry(symbol_instruments)
                alternative == WithExpiry(symbol_instruments, alternative_expiry)
                expiry_instruments ==
                    IF requested # <<>> THEN requested ELSE alternative
                used_expiry ==
                    IF requested = <<>> /\ alternative # <<>>
                    THEN alternative_expiry ELSE expiry_date
                frame == RowsOf(kite_quote(env, expiry_instruments))
            IN  IF expiry_instruments = <<>>
                THEN ChainResult(FALSE, <<>>, cache)
                ELSE ChainResult(FALSE, frame,
                                 _save_option_data_to_cache(cache, frame, used_expiry, now))

(***************************************************************************)
(* OptionsAnalysis.analyze_option                                          *)
(*                                                                         *)
(* The stock frame is [empty, has_close, close] with the close in units of *)
(* 1/PriceScale rupee; target_price is None or Some(price) in the same     *)
(* unit.  stop_loss and confidence are accepted but never read.  An option *)
(* price is a rational <<num, den>> of rupees until round(x, 2) turns it   *)
(* into paise.                                                             *)
(***************************************************************************)
\* round(x, 2) of x = num / den rupees, in paise
RoundPaise(num, den) == PyRound(100 * num, den)

NotAvailable ==
    [text |-> "Option data not available", oi |-> None, volume |-> None,
     liquidity |-> ""]

NoPrices == [current_price |-> None, target_price |-> None, stop_loss |-> None]

\* variant: the empty structure reports a zero option price
EmptyOptionInfoZeroPrice ==
    [option_info |-> [underlying_strike |-> None, selected_strike |-> None,
                      strike_type |-> None, iv_percentile |-> None,
                      max_pain_price |-> None,
                      open_interest_analysis |-> NotAvailable],
     option_prices |-> [current_price |-> Some(0), target_price |-> None,
                        stop_loss |-> None]]

_create_empty_option_info ==
    [option_info |-> [underlying_strike |-> None, selected_strike |-> None,
                      strike_type |-> None, iv_percentile |-> None,
                      max_pain_price |-> None,
                      open_interest_analysis |-> NotAvailable],
     option_prices |-> NoPrices]

RECURSIVE Gcd(_, _)
Gcd(a, b) == IF b = 0 THEN a ELSE Gcd(b, a % b)

\* the rational num / den in lowest terms
Lowest(num, den) == <<num \div Gcd(num, den), den \div Gcd(num, den)>>

\* abs(target_price - current_price) / current_price if both are truthy else 0.05
PriceChangeRatio(target_price, current_price) ==
    IF target_price # None /\ target_price # Some(0) /\ current_price # 0
    THEN Lowest(Abs(target_price[1] - current_price), current_price)
    ELSE <<5, 100>>

Favourable(option_type, signal) ==
    (option_type = "CE" /\ signal = "BUY") \/ (option_type = "PE" /\ signal = "SELL")

\* the option target and stop derived from the option price num / den rupees
TargetAndStopFavourableAlways(option_type, signal, price, ratio) ==
    [target_price |-> Some(RoundPaise(price[1] * (ratio[2] + 2 * ratio[1]),
                                      price[2] * ratio[2])),
     stop_loss |-> Some(RoundPaise(price[1] * 7, price[2] * 10))]
TargetAndStop(option_type, signal, price, ratio) ==
    IF Favourable(option_type, signal)
    THEN [target_price |-> Some(RoundPaise(price[1] * (ratio[2] + 2 * ratio[1]),
                                           price[2] * ratio[2])),
          stop_loss |-> Some(RoundPaise(price[1] * 7, price[2] * 10))]
    ELSE [target_price |-> Some(RoundPaise(price[1] * 5, price[2] * 10)),
          stop_loss |-> Some(RoundPaise(price[1] * 13, price[2] * 10))]

OptionPrices(current_price, derived) ==
    [current_price |-> Some(current_price),
     target_price |-> derived.target_price, stop_loss |-> derived.stop_loss]

\* max(0, close - strike) for a call, max(0, strike - close) for a put, plus
\* close * 0.05, in rupees
EstimatedPrice(option_type, current_price, selected_strike) ==
    LET intrinsic == IF option_type = "CE"
                     THEN Max(0, current_price - selected_strike)
                     ELSE Max(0, selected_strike - current_price)
    IN  <<20 * intrinsic + current_price, 20 * PriceScale>>

\* the open-interest text of a quoted row
OpenInterestAnalysis(oi, volume) ==
    IF oi > 0 \/ volume > 0
    THEN [text |-> "liquidity", oi |-> Some(oi), volume |-> Some(volume),
          liquidity |-> IF oi > 10000 THEN "High"
                        ELSE IF oi > 1000 THEN "Moderate" ELSE "Low"]
    ELSE [text |-> "Limited option data available", oi |-> None,
          volume |-> None, liquidity |-> ""]

Columns(frame) == IF frame = <<>> THEN {} ELSE DOMAIN frame[1]

\* the rows of the chain for the selected strike and type (lines 315-318)
SelectedOption(frame, selected_strike, option_type) ==
    SelectSeq(frame, LAMBDA row : row.strike = selected_strike /\ row.type = option_type)

\* The inner try block raises when the chain call raises or when a column
\* it indexes is missing from a non-empty frame.
InnerTryRaises(chain, selected_strike, option_type) ==
    \/ chain.raised
    \/ /\ chain.frame # <<>>
       /\ \/ ~({"strike", "type"} \subseteq Columns(chain.frame))
          \/ /\ SelectedOption(chain.frame, selected_strike, option_type) # <<>>
             /\ "last_price" \notin Columns(chain.frame)

\* The inner try block: the live branch and the estimate of its except block; with an empty chain or no row for the contract neither runs
\* and the prices keep their initial None
Priced(chain, option_type, signal, current_price, selected_strike, underlying_strike, target_price) ==
    LET ratio == PriceChangeRatio(target_price, current_price)
        estimated_price == EstimatedPrice(option_type, current_price, selected_strike)
        rows == SelectedOption(chain.frame, selected_strike, option_type)
    IN  IF InnerTryRaises(chain, selected_strike, option_type)
        THEN [iv_percentile |-> None, max_pain_price |-> None,
              open_interest_analysis |-> NotAvailable,
              option_prices |->
                 OptionPrices(RoundPaise(estimated_price[1], estimated_price[2]),
                              TargetAndStop(option_type, signal, estimated_price, ratio))]
        ELSE IF chain.frame = <<>> \/ rows = <<>>
        THEN [iv_percentile |-> None, max_pain_price |-> None,
              open_interest_analysis |-> NotAvailable,
              option_prices |-> NoPrices]
        ELSE [iv_percentile |-> IF "iv" \in Columns(chain.frame)
                                THEN Some(RoundPaise(100 * rows[1].iv[1], rows[1].iv[2]))
                                ELSE None,
              max_pain_price |-> Some(underlying_strike),
              open_interest_analysis |->
                 OpenInterestAnalysis(
                     IF "open_interest" \in Columns(chain.frame)
                     THEN rows[1].open_interest ELSE 0,
                     IF "volume" \in Columns(chain.frame) THEN rows[1].volume ELSE 0),
              option_prices |->
                 OptionPrices(rows[1].last_price,
                              TargetAndStop(option_type, signal,
                                            <<rows[1].last_price, 100>>, ratio))]

\* the dictionary of the outer except block (lines 411-419)
AnalyzeFailed ==
    [option_info |-> _create_empty_option_info.option_info,
     option_prices |-> _create_empty_option_info.option_prices,
     option_signal |-> "HOLD", trading_symbol |-> None, expiry_date |-> None]

\* analyze_option(symbol, signal, df_stock, target_price, stop_loss, confidence)
\* run at time now: the dictionary returned and the cache left behind.  No
\* exception leaves the outer try block.
analyze_option(args, env, cache, now) ==
    IF ~args.df_stock.empty /\ ~args.df_stock.has_close
    THEN [raised |-> FALSE, ret |-> AnalyzeFailed, cache |-> cache]
    ELSE IF args.df_stock.empty \/ args.df_stock.close = 0
    THEN [raised |-> FALSE, ret |-> _create_empty_option_info, cache |-> cache]
    ELSE
    LET current_price == args.df_stock.close
        expiry_date == get_nearest_expiry(env.today)
        selection == select_option_strike(current_price, args.signal)
        selected_strike == selection[1]
        option_type == selection[2]
        underlying_strike == selection[3]
    IN  IF selected_strike = 0
        THEN [raised |-> FALSE, ret |-> _create_empty_option_info, cache |-> cache]
        ELSE
        LET trading_symbol == get_option_trading_symbol(args.symbol, selected_strike,
                                                        option_type, expiry_date)
            chain == get_live_option_chain(env, cache, expiry_date, now)
            priced == Priced(chain, option_type, args.signal, current_price,
                             selected_strike, underlying_strike, args.target_price)
        IN  [raised |-> FALSE,
             ret |-> [option_info |->
                         [underlying_strike |-> Some(underlying_strike),
                          selected_strike |-> Some(selected_strike),
                          strike_type |-> Some(option_type),
                          iv_percentile |-> priced.iv_percentile,
                          max_pain_price |-> priced.max_pain_price,
                          open_interest_analysis |-> priced.open_interest_analysis],
                      option_prices |-> priced.option_prices,
                      option_signal |-> _determine_option_signal(args.signal, option_type),
                      trading_symbol |-> trading_symbol,
                      expiry_date |-> Some(StrftimeIso(expiry_date))],
             cache |-> chain.cache]


(***************************************************************************)
(* TradingSignalGenerator.generate_signal (trading_signals.py).  The       *)
(* historical data is a record [kind, close, previous]: kind "none" is     *)
(* None, "empty" an empty frame, "short" a one-row frame, "no_columns" a   *)
(* frame without close column, "ok" a frame with two closes or more.  The  *)
(* collaborators are given by what each of their calls does: market is the *)
(* answer of the 1st, 2nd and 3rd get_market_status call ("raises" when    *)
(* the call raises), quote, analysis, levels, targets and option are the   *)
(* outcome of get_quote, analyze, calculate_support_resistance,            *)
(* find_target_and_stop_loss and analyze_option.  Prices are in            *)
(* 1/PriceScale rupee, rounded prices in paise, percentages in hundredths  *)
(* of a percent and rounded percentages in tenths.  The risk_factors group *)
(* (random days to earnings) and the timestamp are left out of the record. *)
(***************************************************************************)
UnableToSize == "Unable to calculate position size"

\* the dictionary literal of _create_empty_signal
EmptySignal(symbol, market_status) ==
    [basic_info |-> [symbol |-> symbol, previous_close |-> None,
                     current_price |-> None],
     signal_info |-> [signal |-> "HOLD", direction |-> "NEUTRAL",
                      confidence_percent |-> 0,
                      profit_probability_percent |-> 0],
     price_targets |-> [target_price |-> None, stop_loss_price |-> None,
                        risk_reward_ratio |-> 0, days_to_target |-> 1],
     support_resistance |-> [support_levels |-> <<>>,
                             resistance_levels |-> <<>>],
     position_sizing |-> [recommendation |-> UnableToSize],
     option_info |-> [underlying_strike |-> None, selected_strike |-> None,
                      strike_type |-> None, iv_percentile |-> None,
                      max_pain_price |-> None,
                      open_interest_analysis |-> NotAvailable],
     option_prices |-> NoPrices,
     metadata |-> [trading_symbol |-> None, expiry_date |-> None,
                   market_status |-> market_status]]

\* an exception leaves the function during its calls-th market-status call
Escapes(calls) == [raised |-> TRUE, ret |-> [kind |-> ""], calls |-> calls]

Returns(record, calls) == [raised |-> FALSE, ret |-> record, calls |-> calls]

\* _create_empty_signal(symbol), making the call-th get_market_status call:
\* the call is in the dictionary literal, outside any try
_create_empty_signal(symbol, market, call) ==
    IF market[call] = "raises"
    THEN Escapes(call)
    ELSE Returns(EmptySignal(symbol,
                             IF market[call] = "" THEN "Unknown"
                             ELSE market[call]),
                 call)

\* lines 62-72: the defaults of both .get calls are evaluated before the
\* lookup, so a frame without close column leaves both prices None even
\* when the quote has them
QuotedPrices(data, quote) ==
    IF data.kind = "no_columns"
    THEN [current_price |-> None, previous_close |-> None]
    ELSE [current_price |->
             IF quote.kind = "quoted" THEN Some(quote.last_price)
             ELSE Some(data.close),
          previous_close |->
             IF quote.kind = "quoted" THEN Some(quote.close)
             ELSE IF data.kind = "ok" THEN Some(data.previous) ELSE None]

\* round(x, 2) if x else None
RoundedOrNone(x) ==
    IF x = None \/ x = Some(0) THEN None
    ELSE Some(RoundPaise(x[1], PriceScale))

\* the frame analyze hands on, as analyze_option reads it
AnalyzedFrame(data) ==
    [empty |-> FALSE, has_close |-> data.kind # "no_columns",
     close |-> IF data.kind = "no_columns" THEN 0 ELSE data.close]

\* lines 117-129: None and a raised exception both give {}
OptionAnalysis(w, signal, target_price) ==
    IF w.option.kind \in {"raises", "none"}
    THEN [kind |-> "missing"]
    ELSE [kind |-> "analysed",
          ret |-> analyze_option([symbol |-> w.symbol, signal |-> signal,
                                  df_stock |-> AnalyzedFrame(w.data),
                                  target_price |-> target_price],
                                 w.option.env, <<>>, 0).ret]

\* option_analysis.get(key, default)
OptGet(option_analysis, key, default) ==
    IF option_analysis.kind = "analysed" /\ key \in DOMAIN option_analysis.ret
    THEN option_analysis.ret[key] ELSE default

\* lines 98-105: what find_target_and_stop_loss returned, or the defaults
TargetsOf(w) ==
    IF w.targets.kind = "raises"
    THEN [target |-> None, stop |-> None, risk_reward |-> 0, days |-> 1]
    ELSE w.targets

\* lines 107-114
PositionSize(w, prices, targets) ==
    IF /\ prices.current_price \notin {None, Some(0)}
       /\ targets.stop \notin {None, Some(0)}
       /\ w.sizing # "raises"
    THEN w.sizing ELSE UnableToSize

\* lines 165-219, the record of a completed analysis
FullSignal(w, market_status, prices, targets, option_analysis) ==
    [basic_info |-> [symbol |-> w.symbol,
                     previous_close |-> RoundedOrNone(prices.previous_close),
                     current_price |-> RoundedOrNone(prices.current_price)],
     signal_info |-> [signal |-> OptGet(option_analysis, "option_signal", "HOLD"),
                      direction |-> CASE w.analysis.signal = "BUY" -> "UP"
                                      [] w.analysis.signal = "SELL" -> "DOWN"
                                      [] OTHER -> "NEUTRAL",
                      confidence_percent |-> PyRound(w.analysis.confidence, 10),
                      profit_probability_percent |->
                          PyRound(Min(w.analysis.confidence, 8500), 10)],
     price_targets |-> [target_price |-> RoundedOrNone(targets.target),
                        stop_loss_price |-> RoundedOrNone(targets.stop),
                        risk_reward_ratio |-> targets.risk_reward,
                        days_to_target |-> targets.days],
     support_resistance |->
         [support_levels |-> IF w.levels.kind = "found"
                             THEN w.levels.support ELSE <<>>,
          resistance_levels |-> IF w.levels.kind = "found"
                                THEN w.levels.resistance ELSE <<>>],
     position_sizing |-> [recommendation |-> PositionSize(w, prices, targets)],
     option_info |-> OptGet(option_analysis, "option_info", <<>>),
     option_prices |-> OptGet(option_analysis, "option_prices", <<>>),
     metadata |-> [trading_symbol |-> OptGet(option_analysis, "trading_symbol", None),
                   expiry_date |-> OptGet(option_analysis, "expiry_date", None),
                   market_status |-> market_status]]

\* the body of the outer try block (lines 39-222)
GenerateSignalBody(w) ==
    IF w.data.kind \in {"none", "empty"}
    THEN _create_empty_signal(w.symbol, w.market, 1)
    ELSE IF w.analysis.kind \in {"raises", "empty"}
    THEN _create_empty_signal(w.symbol, w.market, 2)
    ELSE Returns(FullSignal(w,
                            IF w.market[1] = "raises" THEN "Unknown"
                            ELSE w.market[1],
                            QuotedPrices(w.data, w.quote),
                            TargetsOf(w),
                            OptionAnalysis(w, w.analysis.signal,
                                           TargetsOf(w).target)),
                 1)

\* the outer except block (lines 224-226): the handler builds the empty
\* record, with one more market-status call
OuterHandler(w, body) ==
    IF body.raised
    THEN _create_empty_signal(w.symbol, w.market, body.calls + 1)
    ELSE body

\* generate_signal(symbol, historical_data)
generate_signal(w) == OuterHandler(w, GenerateSignalBody(w))


(***************************************************************************)
(* HistoricalDataFetcher (historical_data.py).  What the fetcher meets for *)
(* one symbol is a record [file, token, attempts, writable]: the state of  *)
(* the symbol's CSV file ("missing", "stale" or "fresh"), whether the      *)
(* instrument token is found, what the successive kite.historical_data     *)
(* calls do ("error" raises, "none" returns nothing, "rows" returns data)  *)
(* and whether the CSV file can be written.  A frame is reduced to         *)
(* [raised, empty].                                                        *)
(***************************************************************************)
MaxRetries == 3

\* variant: a call that succeeds with no data is retried like a failure
RECURSIVE FetchLoopRetriesOnNoData(_, _)
FetchLoopRetriesOnNoData(attempts, retry_count) ==
    IF retry_count >= MaxRetries
    THEN [empty |-> TRUE, calls |-> retry_count]
    ELSE IF attempts[retry_count + 1] \in {"error", "none"}
    THEN FetchLoopRetriesOnNoData(attempts, retry_count + 1)
    ELSE [empty |-> FALSE, calls |-> retry_count + 1]

\* the while loop of _fetch_historical_data from retry_count on
RECURSIVE FetchLoop(_, _)
FetchLoop(attempts, retry_count) ==
    IF retry_count >= MaxRetries
    THEN [empty |-> TRUE, calls |-> retry_count]
    ELSE IF attempts[retry_count + 1] = "error"
    THEN FetchLoop(attempts, retry_count + 1)
    ELSE [empty |-> attempts[retry_count + 1] = "none",
          calls |-> retry_count + 1]

_fetch_historical_data(attempts) == FetchLoop(attempts, 0)

\* update_historical_data: df.to_csv (line 170) is outside any try
update_historical_data(f) ==
    IF ~f.token
    THEN [raised |-> FALSE, empty |-> TRUE]
    ELSE LET fetched == _fetch_historical_data(f.attempts)
         IN  IF ~fetched.empty /\ ~f.writable
             THEN [raised |-> TRUE, empty |-> TRUE]
             ELSE [raised |-> FALSE, empty |-> fetched.empty]

\* get_historical_data(symbol, 'day', days, force_update)
get_historical_data(f, force_update) ==
    IF force_update \/ f.file # "fresh"
    THEN update_historical_data(f)
    ELSE [raised |-> FALSE, empty |-> FALSE]

\* signals[symbol] = signal
Put(dict, key, value) ==
    [k \in DOMAIN dict \cup {key} |-> IF k = key THEN value ELSE dict[k]]


(***************************************************************************)
(* SupportResistanceCalculator.calculate_position_size.  Prices are in     *)
(* paise, the portfolio size in rupees, max_risk_percent in tenths of a    *)
(* percent.  The recommendation string is the record of the numbers it     *)
(* prints: max_shares, the position value to 2 decimals (paise) and the    *)
(* percentage of the portfolio to 1 decimal (tenths).                      *)
(***************************************************************************)
PositionFailed == [failed |-> TRUE, max_shares |-> 0, position_size |-> 0,
                   portfolio_percent |-> 0, max_risk_percent |-> 0]

\* variant: no test of risk_per_share before the division
PositionSizeDividesAlways(latest_price, stop_loss, portfolio_size, max_risk_percent) ==
    LET risk_per_share == Abs(latest_price - stop_loss)
        max_shares == (portfolio_size * max_risk_percent) \div (10 * risk_per_share)
        position_size == max_shares * latest_price
        percent == Lowest(position_size, portfolio_size)
    IN  IF risk_per_share = 0 \/ portfolio_size = 0
        THEN PositionFailed
        ELSE [failed |-> FALSE, max_shares |-> max_shares,
              position_size |-> position_size,
          portfolio_percent |-> PyRound(10 * percent[1], percent[2]),
          max_risk_percent |-> max_risk_percent]

\* calculate_position_size(latest_price, stop_loss, portfolio_size,
\* max_risk_percent): max_risk_amount / risk_per_share is
\* (portfolio_size * max_risk_percent / 1000 rupees) / (risk_per_share / 100
\* rupees); position_size / portfolio_size * 100 divides by zero for an
\* empty portfolio, which the except block turns into the failure string
calculate_position_size(latest_price, stop_loss, portfolio_size, max_risk_percent) ==
    LET risk_per_share == Abs(latest_price - stop_loss)
        max_shares == IF risk_per_share > 0
                      THEN (portfolio_size * max_risk_percent)
                              \div (10 * risk_per_share)
                      ELSE 0
        position_size == max_shares * latest_price
        percent == Lowest(position_size, portfolio_size)
    IN  IF portfolio_size = 0
        THEN PositionFailed
        ELSE [failed |-> FALSE, max_shares |-> max_shares,
              position_size |-> position_size,
              portfolio_percent |-> PyRound(10 * percent[1], percent[2]),
              max_risk_percent |-> max_risk_percent]


(***************************************************************************)
(* The lookback windows of TechnicalAnalysis.calculate_indicators for a    *)
(* frame of data_size rows: min(nominal, max(floor, data_size // divisor)).*)
(***************************************************************************)
RSI_PERIOD == 14
MACD_FAST == 12
MACD_SLOW == 26
MACD_SIGNAL == 9
ADX_PERIOD == 14
VOLATILITY_PERIOD == 20

\* variant: the stochastic smoothing and the momentum horizons floored at 2
\* like the other windows
IndicatorPeriodsFlooredAtTwo(data_size) ==
    [rsi_period |-> Min(RSI_PERIOD, Max(2, data_size \div 3)),
     adx_period |-> Min(ADX_PERIOD, Max(2, data_size \div 3)),
     macd_fast |-> Min(MACD_FAST, Max(2, data_size \div 5)),
     macd_slow |-> Min(MACD_SLOW, Max(3, data_size \div 4)),
     macd_signal |-> Min(MACD_SIGNAL, Max(2, data_size \div 6)),
     sma_20_period |-> Min(20, Max(2, data_size \div 3)),
     sma_50_period |-> Min(50, Max(3, data_size \div 2)),
     sma_200_period |-> Min(200, Max(5, data_size - 5)),
     ema_9_period |-> Min(9, Max(2, data_size \div 4)),
     ema_21_period |-> Min(21, Max(3, data_size \div 3)),
     bb_period |-> Min(20, Max(2, data_size \div 3)),
     atr_period |-> Min(VOLATILITY_PERIOD, Max(2, data_size \div 3)),
     vol_sma_period |-> Min(20, Max(2, data_size \div 3)),
     stoch_period |-> Min(14, Max(2, data_size \div 3)),
     stoch_smooth |-> Min(3, Max(2, data_size \div 10)),
     mom_1d_period |-> Min(2, Max(2, data_size \div 20)),
     mom_5d_period |-> Min(5, Max(2, data_size \div 10)),
     mom_20d_period |-> Min(20, Max(2, data_size \div 5))]

\* lines 42-148: every window calculate_indicators derives from data_size
IndicatorPeriods(data_size) ==
    [rsi_period |-> Min(RSI_PERIOD, Max(2, data_size \div 3)),
     adx_period |-> Min(ADX_PERIOD, Max(2, data_size \div 3)),
     macd_fast |-> Min(MACD_FAST, Max(2, data_size \div 5)),
     macd_slow |-> Min(MACD_SLOW, Max(3, data_size \div 4)),
     macd_signal |-> Min(MACD_SIGNAL, Max(2, data_size \div 6)),
     sma_20_period |-> Min(20, Max(2, data_size \div 3)),
     sma_50_period |-> Min(50, Max(3, data_size \div 2)),
     sma_200_period |-> Min(200, Max(5, data_size - 5)),
     ema_9_period |-> Min(9, Max(2, data_size \div 4)),
     ema_21_period |-> Min(21, Max(3, data_size \div 3)),
     bb_period |-> Min(20, Max(2, data_size \div 3)),
     atr_period |-> Min(VOLATILITY_PERIOD, Max(2, data_size \div 3)),
     vol_sma_period |-> Min(20, Max(2, data_size \div 3)),
     stoch_period |-> Min(14, Max(2, data_size \div 3)),
     stoch_smooth |-> Min(3, Max(1, data_size \div 10)),
     mom_1d_period |-> Min(1, Max(1, data_size \div 20)),
     mom_5d_period |-> Min(5, Max(1, data_size \div 10)),
     mom_20d_period |-> Min(20, Max(1, data_size \div 5))]

\* the nominal period of each window
NominalPeriods ==
    [rsi_period |-> RSI_PERIOD, adx_period |-> ADX_PERIOD,
     macd_fast |-> MACD_FAST, macd_slow |-> MACD_SLOW,
     macd_signal |-> MACD_SIGNAL, sma_20_period |-> 20,
     sma_50_period |-> 50, sma_200_period |-> 200, ema_9_period |-> 9,
     ema_21_period |-> 21, bb_period |-> 20,
     atr_period |-> VOLATILITY_PERIOD, vol_sma_period |-> 20,
     stoch_period |-> 14, stoch_smooth |-> 3, mom_1d_period |-> 1,
     mom_5d_period |-> 5, mom_20d_period |-> 20]


(***************************************************************************)
(* Inputs of generate_signals.  Every sub-signal is given values on each   *)
(* side of its thresholds, so that each can vote BUY, SELL or HOLD.        *)
(***************************************************************************)
CloseValues == {100}

RsiValues == {29, 30, 71}
MacdValues == {-1, 0, 1}
AdxCases == { <<25, 20, 10>>, <<26, 20, 10>>, <<26, 10, 10>> }   \* adx, +DI, -DI
MaCases == { <<99, 98>>, <<101, 102>>, <<99, 102>> }             \* sma_50, sma_200
BbCases == { <<100, 110>>, <<90, 100>>, <<90, 110>> }            \* bb_lower, bb_upper
StochCases == { <<10, 10>>, <<90, 90>>, <<10, 90>> }             \* stoch_k, stoch_d
EmaValues == {99, 100, 101}
PrevCloseValues == {97, 100, 103}
AtrValues == {1, 2}
VolumeValues == {100, 200}
VolumeSmaValues == {100}
TrendScoreValues == {30, 50, 71}

LatestRow(c, r, m, a, ma, bb, st, e, atr, v, vs, t) ==
    [rsi |-> r, macd |-> m, macd_signal |-> 0,
     adx |-> a[1], adx_pos |-> a[2], adx_neg |-> a[3],
     close |-> c, sma_50 |-> ma[1], sma_200 |-> ma[2],
     bb_lower |-> bb[1], bb_upper |-> bb[2],
     stoch_k |-> st[1], stoch_d |-> st[2], ema_21 |-> e,
     atr |-> atr, volume |-> v, volume_sma |-> vs,
     technical_trend_score |-> t]

\* The frames: the empty frame (one representative; its row is never read),
\* one-row frames (no previous close: the field repeats the close and is
\* never read) and frames of two or more rows.
IsSignalFrame(f) ==
    /\ f.n = 0 => /\ ~f.has_volume
                  /\ f.latest = LatestRow(100, 30, 0, <<25, 20, 10>>, <<99, 102>>,
                                          <<90, 110>>, <<10, 90>>, 100, 1, 100, 100, 50)
    /\ f.n < 2 => f.prev_close = f.latest.close /\ f.latest.atr = 1

(***************************************************************************)
(* Inputs of the support/resistance calculator: frames of up to MaxBars    *)
(* bars with prices around 100.00, an ATR that may be smaller than 0.01,   *)
(* and the (signal, confidence) pairs the voter can produce.               *)
(***************************************************************************)
MaxBars == 2

Paise(p) == p * Grain

LowValues == {Paise(9800), Paise(9950), Paise(10000)}
HighValues == {Paise(10000), Paise(10050), Paise(10200)}
SrCloseValues == {Paise(9950), Paise(10000), Paise(10050)}
SrAtrValues == {0, 1, Paise(50), Paise(150)}
Bars == [low : LowValues, high : HighValues]
Signals == {"BUY", "SELL", "HOLD"}
Confidences == { <<0, 1>>, <<50, 1>>, <<400, 10>>, <<300, 9>> }

\* The latest close lies within the latest bar; an unused field has one value.
IsPriceFrame(f) ==
    /\ Len(f.bars) > 0 => /\ f.bars[Len(f.bars)].low <= f.close
                          /\ f.close <= f.bars[Len(f.bars)].high
    /\ Len(f.bars) = 0 => (f.close = Paise(10000) /\ f.has_close /\ ~f.has_atr)
    /\ ~f.has_atr => f.atr = 0
    /\ ~f.has_close => (Len(f.bars) = 1 /\ f.close = Paise(10000) /\ f.has_atr /\ f.atr = 0)

NoFrame == [bars |-> <<>>]
NoResult == [raised |-> FALSE, signal |-> "", confidence |-> <<0, 1>>]
NoArgs == [signal |-> "", confidence |-> <<0, 1>>]
NoTargets == [op |-> "", levels |-> [support |-> <<>>, resistance |-> <<>>], ret |-> <<>>]
NoOptArgs == [current_price |-> 0, signal |-> ""]
NoOption == [op |-> "", ret |-> <<>>]
NoEnv == [today |-> 0]
NoCache == <<>>
NoRecord == [kind |-> ""]
NoWorld == <<>>

IdleAnalyze == opt_env = NoEnv /\ opt_cache = NoCache /\ opt_first = NoOption
IdleGenerate == gen_args = NoWorld /\ gen_out = NoRecord
IdleHelpers ==
    /\ fn_args = NoRecord /\ fn_out = NoRecord
    /\ rl_calls = <<>> /\ rl_now = 0 /\ rl_log = <<>>
IdleMain ==
    /\ stocks = <<>> /\ world = NoWorld /\ pos = 0
    /\ historical_data = {} /\ signals = <<>>
    /\ output = <<>> /\ exit_code = <<>>

InitSignals ==
    /\ pc = "start"
    /\ IdleHelpers
    /\ \E n \in 0..2, hv \in BOOLEAN, p \in PrevCloseValues, c \in CloseValues,
          vs \in VolumeSmaValues, r \in RsiValues, m \in MacdValues, a \in AdxCases, ma \in MaCases,
          bb \in BbCases, st \in StochCases, e \in EmaValues, atr \in AtrValues,
          v \in VolumeValues, t \in TrendScoreValues :
            /\ df = [n |-> n, has_volume |-> hv,
                     latest |-> LatestRow(c, r, m, a, ma, bb, st, e, atr, v, vs, t),
                     prev_close |-> p]
            /\ IsSignalFrame(df)
    /\ result = NoResult
    /\ sr_df = NoFrame /\ sr_args = NoArgs /\ sr_out = NoTargets
    /\ opt_args = NoOptArgs /\ opt_out = NoOption
    /\ IdleAnalyze /\ IdleGenerate /\ IdleMain

\* TechnicalAnalysis.generate_signals(df)
GenerateSignals ==
    /\ pc = "start"
    /\ result' = generate_signals(df)
    /\ pc' = "done"
    /\ UNCHANGED <<df, sr_df, sr_args, sr_out, opt_args, opt_out>>
    /\ UNCHANGED <<analyze_vars, generate_vars, main_vars, helper_vars>>

NextSignals == GenerateSignals

SpecSignals == InitSignals /\ [][NextSignals]_vars

InitLevels ==
    /\ pc = "start"
    /\ IdleHelpers
    /\ df = [n |-> 0] /\ result = NoResult
    /\ \E bars \in UNION {[1..n -> Bars] : n \in 0..MaxBars},
          close \in SrCloseValues, has_close \in BOOLEAN, has_atr \in BOOLEAN,
          atr \in SrAtrValues :
            /\ sr_df = [bars |-> bars, close |-> close, has_close |-> has_close,
                        has_atr |-> has_atr, atr |-> atr]
            /\ IsPriceFrame(sr_df)
    /\ sr_args \in [signal : Signals, confidence : Confidences]
    /\ sr_out = NoTargets
    /\ opt_args = NoOptArgs /\ opt_out = NoOption
    /\ IdleAnalyze /\ IdleGenerate /\ IdleMain

\* SupportResistanceCalculator.calculate_support_resistance(df)
CalculateSupportResistance ==
    /\ pc = "start"
    /\ sr_out' = [op |-> "calculate_support_resistance",
                  levels |-> calculate_support_resistance(sr_df),
                  ret |-> <<>>]
    /\ pc' = "done"
    /\ UNCHANGED <<df, result, sr_df, sr_args, opt_args, opt_out>>
    /\ UNCHANGED <<analyze_vars, generate_vars, main_vars, helper_vars>>

\* SupportResistanceCalculator.find_target_and_stop_loss(df, signal, confidence)
FindTargetAndStopLoss ==
    /\ pc = "start"
    /\ LET found == find_target_and_stop_loss(sr_df, sr_args.signal,
                                               sr_args.confidence)
       IN  sr_out' = [op |-> "find_target_and_stop_loss",
                      levels |-> found.levels, ret |-> found.ret]
    /\ pc' = "done"
    /\ UNCHANGED <<df, result, sr_df, sr_args, opt_args, opt_out>>
    /\ UNCHANGED <<analyze_vars, generate_vars, main_vars, helper_vars>>

NextLevels == CalculateSupportResistance \/ FindTargetAndStopLoss

SpecLevels == InitLevels /\ [][NextLevels]_vars

(***************************************************************************)
(* Inputs of the options analysis: every price from 1/PriceScale rupee up  *)
(* to MaxPrice rupees, which covers the three price tiers, and each signal.*)
(***************************************************************************)
MaxPrice == 7100

InitOptions ==
    /\ pc = "start"
    /\ IdleHelpers
    /\ df = [n |-> 0] /\ result = NoResult
    /\ sr_df = NoFrame /\ sr_args = NoArgs /\ sr_out = NoTargets
    /\ opt_args \in [current_price : 1..Rupees(MaxPrice), signal : Signals]
    /\ opt_out = NoOption
    /\ IdleAnalyze /\ IdleGenerate /\ IdleMain

\* OptionsAnalysis.find_atm_strike(current_price)
FindAtmStrike ==
    /\ pc = "start"
    /\ opt_out' = [op |-> "find_atm_strike",
                   ret |-> <<find_atm_strike(opt_args.current_price)>>]
    /\ pc' = "done"
    /\ UNCHANGED <<df, result, sr_df, sr_args, sr_out, opt_args>>
    /\ UNCHANGED <<analyze_vars, generate_vars, main_vars, helper_vars>>

\* OptionsAnalysis.select_option_strike(symbol, current_price, signal, expiry_date)
SelectOptionStrike ==
    /\ pc = "start"
    /\ opt_out' = [op |-> "select_option_strike",
                   ret |-> select_option_strike(opt_args.current_price,
                                                opt_args.signal)]
    /\ pc' = "done"
    /\ UNCHANGED <<df, result, sr_df, sr_args, sr_out, opt_args>>
    /\ UNCHANGED <<analyze_vars, generate_vars, main_vars, helper_vars>>

NextOptions == FindAtmStrike \/ SelectOptionStrike

SpecOptions == InitOptions /\ [][NextOptions]_vars

(***************************************************************************)
(* get_nearest_expiry on every day of Years, before and after the market   *)
(* close of that day.                                                      *)
(***************************************************************************)
InitExpiry ==
    /\ pc = "start"
    /\ IdleHelpers
    /\ df = [n |-> 0] /\ result = NoResult
    /\ sr_df = NoFrame /\ sr_args = NoArgs /\ sr_out = NoTargets
    /\ opt_args = NoOptArgs /\ opt_out = NoOption
    /\ \E y \in Years, m \in 1..12, after_close \in BOOLEAN :
          \E d \in 1..DaysInMonth(y, m) :
              opt_env = [today |-> Date(y, m, d), after_close |-> after_close]
    /\ opt_cache = NoCache /\ opt_first = NoOption
    /\ IdleGenerate /\ IdleMain

\* OptionsAnalysis.get_nearest_expiry()
GetNearestExpiry ==
    /\ pc = "start"
    /\ opt_out' = [op |-> "get_nearest_expiry",
                   ret |-> get_nearest_expiry(opt_env.today)]
    /\ pc' = "done"
    /\ UNCHANGED <<df, result, sr_df, sr_args, sr_out, opt_args>>
    /\ UNCHANGED <<analyze_vars, generate_vars, main_vars, helper_vars>>

NextExpiry == GetNearestExpiry

SpecExpiry == InitExpiry /\ [][NextExpiry]_vars

(***************************************************************************)
(* analyze_option run twice on the same arguments.  The stock frame is     *)
(* empty, lacks the close column, or closes at a price of one of the three *)
(* strike tiers; the broker fails, lists nothing, or lists one contract:   *)
(* the selected one, its neighbour strike, or the selected strike at a     *)
(* later expiry.  The second run starts Elapsed seconds after the first.   *)
(***************************************************************************)
AnalyzeCloses ==
    {Rupees(50), Rupees(980), Rupees(1040), Rupees(1040) + 1, Rupees(4800)}
Symbols == {"INFY"}
Todays == {Date(2024, 1, 10), Date(2024, 12, 27)}
LastPrices == {0, 1, 5, 1250, 2400}
OpenInterests == {0, 1500}
ElapsedValues == {1, 3601}
Listings == {"none", "neighbour", "later_expiry", "selected"}
Brokers == {"cache_error", "api_error", "quote_error", "listed"}

StockFrames ==
    {[empty |-> TRUE, has_close |-> TRUE, close |-> 0],
     [empty |-> FALSE, has_close |-> FALSE, close |-> 0]}
    \cup {[empty |-> FALSE, has_close |-> TRUE, close |-> c] : c \in AnalyzeCloses}

\* the underlying targets find_target_and_stop_loss can hand over: none, the
\* close itself, or a price on either side of it
TargetCases(close) ==
    {None, Some(close), Some(close + Rupees(20)), Some(close - Rupees(20))}

\* the contract analyze_option will look for
Wanted(args, today) ==
    LET selection == select_option_strike(args.df_stock.close, args.signal)
    IN  [strike |-> selection[1], instrument_type |-> selection[2],
         expiry |-> get_nearest_expiry(today)]

\* what the broker lists and quotes
Listed(listing, wanted, last_price, oi) ==
    LET contract == [strike |-> wanted.strike,
                     instrument_type |-> wanted.instrument_type,
                     expiry |-> wanted.expiry,
                     last_price |-> last_price, volume |-> 0, oi |-> oi]
    IN  CASE listing = "none" -> <<>>
          [] listing = "neighbour" ->
                << [contract EXCEPT !.strike = @ + Rupees(100)] >>
          [] listing = "later_expiry" ->
                << [contract EXCEPT !.expiry = MinusDays(@, 0 - 7)] >>
          [] listing = "selected" -> << contract >>

\* one representative for the parts of the environment that are never read
IsAnalyzeCase(args, broker, listing, last_price, oi) ==
    /\ broker # "listed" => listing = "selected" /\ last_price = 1250 /\ oi = 1500
    /\ listing = "none" => last_price = 1250 /\ oi = 1500
    /\ listing = "neighbour" => last_price = 1250 /\ oi = 1500
    /\ listing = "later_expiry" => oi = 1500
    /\ (args.df_stock.empty \/ ~args.df_stock.has_close) =>
          /\ args.signal = "HOLD" /\ args.target_price = None
          /\ broker = "listed" /\ listing = "none"

InitAnalyze ==
    /\ pc = "start"
    /\ IdleHelpers
    /\ df = [n |-> 0] /\ result = NoResult
    /\ sr_df = NoFrame /\ sr_args = NoArgs /\ sr_out = NoTargets
    /\ opt_out = NoOption /\ opt_cache = NoCache /\ opt_first = NoOption
    /\ \E symbol \in Symbols, signal \in Signals, frame \in StockFrames,
          today \in Todays, broker \in Brokers, listing \in Listings,
          last_price \in LastPrices, oi \in OpenInterests,
          elapsed \in ElapsedValues :
          \E target_price \in TargetCases(frame.close) :
              /\ opt_args = [symbol |-> symbol, signal |-> signal,
                             df_stock |-> frame, target_price |-> target_price]
              /\ IsAnalyzeCase(opt_args, broker, listing, last_price, oi)
              /\ opt_env = [today |-> today, broker |-> broker,
                            listing |-> listing,
                            listed |-> Listed(listing, Wanted(opt_args, today),
                                              last_price, oi),
                            elapsed |-> elapsed]
    /\ IdleGenerate /\ IdleMain

AnalyzeResult(run) ==
    [op |-> "analyze_option", raised |-> run.raised, ret |-> run.ret]

\* OptionsAnalysis.analyze_option(...), the first call
AnalyzeOption ==
    /\ pc = "start"
    /\ LET run == analyze_option(opt_args, opt_env, opt_cache, 0)
       IN  /\ opt_out' = AnalyzeResult(run)
           /\ opt_cache' = run.cache
    /\ pc' = "done"
    /\ UNCHANGED <<df, result, sr_df, sr_args, sr_out, opt_args>>
    /\ UNCHANGED <<opt_env, opt_first, generate_vars, main_vars, helper_vars>>

\* OptionsAnalysis.analyze_option(...) called again with the same arguments
AnalyzeOptionAgain ==
    /\ pc = "done" /\ opt_out.op = "analyze_option"
    /\ LET run == analyze_option(opt_args, opt_env, opt_cache, opt_env.elapsed)
       IN  /\ opt_out' = AnalyzeResult(run)
           /\ opt_cache' = run.cache
    /\ opt_first' = opt_out
    /\ pc' = "repeated"
    /\ UNCHANGED <<df, result, sr_df, sr_args, sr_out, opt_args>>
    /\ UNCHANGED <<opt_env, generate_vars, main_vars, helper_vars>>

\* OptionsAnalysis._determine_option_signal(stock_signal, option_type), with
\* "" for a missing argument
DetermineOptionSignal ==
    /\ pc = "start"
    /\ \E stock_signal \in Signals \cup {""}, option_type \in {"CE", "PE", ""} :
          opt_out' = [op |-> "_determine_option_signal", raised |-> FALSE,
                      ret |-> [stock_signal |-> stock_signal,
                               option_type |-> option_type,
                               option_signal |->
                                  _determine_option_signal(stock_signal, option_type)]]
    /\ pc' = "done"
    /\ UNCHANGED <<df, result, sr_df, sr_args, sr_out, opt_args>>
    /\ UNCHANGED <<analyze_vars, generate_vars, main_vars, helper_vars>>

NextAnalyze == AnalyzeOption \/ AnalyzeOptionAgain \/ DetermineOptionSignal

SpecAnalyze == InitAnalyze /\ [][NextAnalyze]_vars

(***************************************************************************)
(* generate_signal on every kind of historical data and every behaviour of *)
(* its collaborators.                                                      *)
(***************************************************************************)
HistoricalData ==
    {[kind |-> "none", close |-> 0, previous |-> 0],
     [kind |-> "empty", close |-> 0, previous |-> 0],
     [kind |-> "short", close |-> Rupees(1040), previous |-> 0],
     [kind |-> "no_columns", close |-> 0, previous |-> 0],
     [kind |-> "ok", close |-> Rupees(1040), previous |-> Rupees(1030)]}

MarketAnswers == {"Open", "raises"}

Quotes ==
    {[kind |-> "raises", last_price |-> 0, close |-> 0],
     [kind |-> "empty", last_price |-> 0, close |-> 0],
     [kind |-> "quoted", last_price |-> Rupees(1041) + 1, close |-> Rupees(1030)]}

Analyses ==
    {[kind |-> "raises", signal |-> "HOLD", confidence |-> 0],
     [kind |-> "empty", signal |-> "HOLD", confidence |-> 0]}
    \cup {[kind |-> "result", signal |-> sig, confidence |-> c] :
             sig \in Signals, c \in {4025, 9000}}

LevelOutcomes ==
    {[kind |-> "raises", support |-> <<>>, resistance |-> <<>>],
     [kind |-> "found", support |-> <<>>, resistance |-> <<>>],
     [kind |-> "found", support |-> <<101000>>, resistance |-> <<106000>>]}

TargetOutcomes ==
    {[kind |-> "raises", target |-> None, stop |-> None,
      risk_reward |-> 0, days |-> 1],
     [kind |-> "result", target |-> None, stop |-> None,
      risk_reward |-> 0, days |-> 1],
     [kind |-> "result", target |-> Some(Rupees(1060)),
      stop |-> Some(Rupees(1030)), risk_reward |-> 200, days |-> 4]}

SizingOutcomes == {"raises", "Buy 96 shares"}

OptionOutcomes == {"raises", "none"} \cup Brokers

\* the option collaborator: analyze_option raising, returning None, or run
\* against a broker that lists the wanted contract at 12.50
OptionCase(outcome, symbol, signal, data) ==
    IF outcome \in {"raises", "none"}
    THEN [kind |-> outcome, env |-> NoEnv]
    ELSE LET today == Date(2024, 1, 10)
             wanted == Wanted([df_stock |-> AnalyzedFrame(data),
                               signal |-> signal], today)
         IN  [kind |-> "analysed",
              env |-> [today |-> today, broker |-> outcome,
                       listing |-> "selected",
                       listed |-> Listed("selected", wanted, 1250, 1500),
                       elapsed |-> 1]]

\* one representative for the collaborators a path never calls
IsGenerateCase(w, option) ==
    /\ w.data.kind \in {"none", "empty"} =>
          /\ w.quote.kind = "empty" /\ w.analysis.kind = "empty"
          /\ w.market[3] = "Open"
    /\ w.analysis.kind # "result" =>
          /\ w.levels.kind = "raises" /\ w.targets.kind = "raises"
          /\ w.sizing = "raises" /\ option = "none"
    /\ (w.data.kind \notin {"none", "empty"} /\ w.analysis.kind = "result") =>
          w.market[2] = "Open" /\ w.market[3] = "Open"

InitGenerate ==
    /\ pc = "start"
    /\ IdleHelpers
    /\ df = [n |-> 0] /\ result = NoResult
    /\ sr_df = NoFrame /\ sr_args = NoArgs /\ sr_out = NoTargets
    /\ opt_args = NoOptArgs /\ opt_out = NoOption
    /\ IdleAnalyze /\ IdleMain
    /\ gen_out = NoRecord
    /\ \E symbol \in Symbols, data \in HistoricalData,
          m1 \in MarketAnswers, m2 \in MarketAnswers, m3 \in MarketAnswers,
          quote \in Quotes, analysis \in Analyses, levels \in LevelOutcomes,
          targets \in TargetOutcomes, sizing \in SizingOutcomes,
          option \in OptionOutcomes :
          /\ gen_args = [symbol |-> symbol, data |-> data,
                         market |-> <<m1, m2, m3>>, quote |-> quote,
                         analysis |-> analysis, levels |-> levels,
                         targets |-> targets, sizing |-> sizing,
                         option |-> OptionCase(option, symbol,
                                               analysis.signal, data)]
          /\ IsGenerateCase(gen_args, option)

GenerateResult(run) ==
    [kind |-> "generate_signal", raised |-> run.raised, ret |-> run.ret]

\* TradingSignalGenerator.generate_signal(symbol, historical_data)
GenerateSignal ==
    /\ pc = "start"
    /\ gen_out' = GenerateResult(generate_signal(gen_args))
    /\ pc' = "done"
    /\ UNCHANGED <<df, result, sr_df, sr_args, sr_out, opt_args, opt_out>>
    /\ UNCHANGED <<analyze_vars, gen_args, main_vars, helper_vars>>

NextGenerate == GenerateSignal

SpecGenerate == InitGenerate /\ [][NextGenerate]_vars

(***************************************************************************)
(* main (main.py): the stocks list is read, the history of each symbol is  *)
(* fetched, a signal is generated for each symbol that has data, and the   *)
(* signals are written.  One action per loop iteration; pc is the step of  *)
(* main, pos the place in the stocks list.  world gives, per symbol, what  *)
(* the history fetcher meets and how the signal generator's collaborators  *)
(* behave.                                                                 *)
(***************************************************************************)
MaxStocks == 3

StockNames == <<"INFY", "TCS", "SBIN", "ITC", "LT">>

FetchCases ==
    {[file |-> "fresh", token |-> TRUE, writable |-> TRUE,
      attempts |-> <<"rows", "rows", "rows">>],
     [file |-> "stale", token |-> TRUE, writable |-> TRUE,
      attempts |-> <<"error", "error", "rows">>],
     [file |-> "stale", token |-> FALSE, writable |-> TRUE,
      attempts |-> <<"rows", "rows", "rows">>],
     [file |-> "missing", token |-> TRUE, writable |-> TRUE,
      attempts |-> <<"error", "error", "error">>],
     [file |-> "missing", token |-> TRUE, writable |-> TRUE,
      attempts |-> <<"error", "none", "rows">>],
     [file |-> "missing", token |-> TRUE, writable |-> FALSE,
      attempts |-> <<"rows", "rows", "rows">>]}

GenerateCases == {"analysed", "analysis_raises", "status_raises"}

\* what generate_signal meets for a symbol whose history was fetched
SignalWorld(symbol, case) ==
    LET data == [kind |-> "ok", close |-> Rupees(1040),
                 previous |-> Rupees(1030)]
        status == IF case = "status_raises" THEN "raises" ELSE "Open"
    IN  [symbol |-> symbol, data |-> data,
         market |-> <<status, status, status>>,
         quote |-> [kind |-> "empty", last_price |-> 0, close |-> 0],
         analysis |-> IF case = "analysed"
                      THEN [kind |-> "result", signal |-> "BUY",
                            confidence |-> 9000]
                      ELSE [kind |-> "raises", signal |-> "HOLD",
                            confidence |-> 0],
         levels |-> [kind |-> "found", support |-> <<101000>>,
                     resistance |-> <<106000>>],
         targets |-> [kind |-> "result", target |-> Some(Rupees(1060)),
                      stop |-> Some(Rupees(1030)), risk_reward |-> 200,
                      days |-> 4],
         sizing |-> "Buy 96 shares",
         option |-> OptionCase("listed", symbol, "BUY", data)]

\* one representative generator behaviour for a symbol that gets no data
SymbolCases ==
    {[fetch |-> f, generate |-> g] : f \in FetchCases, g \in GenerateCases}

IsSymbolCase(c, force_update) ==
    LET fetched == get_historical_data(c.fetch, force_update)
    IN  (fetched.raised \/ fetched.empty) => c.generate = "analysed"

InitMain ==
    /\ pc = "start"
    /\ IdleHelpers
    /\ df = [n |-> 0] /\ result = NoResult
    /\ sr_df = NoFrame /\ sr_args = NoArgs /\ sr_out = NoTargets
    /\ opt_args = NoOptArgs /\ opt_out = NoOption
    /\ IdleAnalyze /\ IdleGenerate
    /\ pos = 0 /\ historical_data = {} /\ signals = <<>>
    /\ output = None /\ exit_code = None
    /\ \E n \in 0..MaxStocks, force_update \in BOOLEAN :
          /\ stocks = SubSeq(StockNames, 1, n)
          /\ \E cases \in [{StockNames[k] : k \in 1..n} -> SymbolCases] :
                /\ \A sym \in DOMAIN cases : IsSymbolCase(cases[sym], force_update)
                /\ world = [force_update |-> force_update, symbols |-> cases]

\* the except block of main (lines 190-192): sys.exit(1)
Abort ==
    /\ pc' = "exited"
    /\ exit_code' = Some(1)
    /\ UNCHANGED <<pos, historical_data, signals, output>>

\* steps 2 to 4: the stocks list is read; an empty list ends the run
ReadStocks ==
    /\ pc = "start"
    /\ IF Len(stocks) = 0
       THEN Abort
       ELSE /\ pc' = "fetching" /\ pos' = 1
            /\ UNCHANGED <<historical_data, signals, output, exit_code>>
    /\ UNCHANGED <<df, result, sr_df, sr_args, sr_out, opt_args, opt_out>>
    /\ UNCHANGED <<analyze_vars, generate_vars, stocks, world, helper_vars>>

\* after the last symbol of a loop the next step of main starts
Advance(next_pc) ==
    IF pos < Len(stocks)
    THEN pc' = pc /\ pos' = pos + 1
    ELSE pc' = next_pc /\ pos' = 1

\* step 5, one iteration of the loop of lines 122-138
FetchSymbol ==
    /\ pc = "fetching"
    /\ LET symbol == stocks[pos]
           fetched == get_historical_data(world.symbols[symbol].fetch,
                                          world.force_update)
       IN  IF fetched.raised
           THEN Abort
           ELSE /\ historical_data' = IF fetched.empty THEN historical_data
                                      ELSE historical_data \cup {symbol}
                /\ Advance("generating")
                /\ UNCHANGED <<signals, output, exit_code>>
    /\ UNCHANGED <<df, result, sr_df, sr_args, sr_out, opt_args, opt_out>>
    /\ UNCHANGED <<analyze_vars, generate_vars, stocks, world, helper_vars>>

\* lines 153-159: the symbol's signal is stored, unless generate_signal
\* raised
StoreSignal(symbol, run) ==
    IF run.raised
    THEN Abort
    ELSE /\ signals' = Put(signals, symbol, run.ret)
         /\ Advance("saving")
         /\ UNCHANGED <<historical_data, output, exit_code>>

\* step 7, one iteration of the loop of lines 148-162
GenerateSymbol ==
    /\ pc = "generating"
    /\ IF stocks[pos] \notin historical_data
       THEN /\ Advance("saving")
            /\ UNCHANGED <<historical_data, signals, output, exit_code>>
       ELSE StoreSignal(stocks[pos],
                        generate_signal(SignalWorld(stocks[pos],
                                        world.symbols[stocks[pos]].generate)))
    /\ UNCHANGED <<df, result, sr_df, sr_args, sr_out, opt_args, opt_out>>
    /\ UNCHANGED <<analyze_vars, generate_vars, stocks, world, helper_vars>>

\* step 8: the signals dictionary is written to the output files
SaveResults ==
    /\ pc = "saving"
    /\ output' = Some(signals)
    /\ pc' = "finished"
    /\ exit_code' = Some(0)
    /\ UNCHANGED <<pos, historical_data, signals>>
    /\ UNCHANGED <<df, result, sr_df, sr_args, sr_out, opt_args, opt_out>>
    /\ UNCHANGED <<analyze_vars, generate_vars, stocks, world, helper_vars>>

NextMain == ReadStocks \/ FetchSymbol \/ GenerateSymbol \/ SaveResults

SpecMain == InitMain /\ [][NextMain]_vars

(***************************************************************************)
(* calculate_position_size on prices and stops at, just beside and far     *)
(* from each other, for an empty, a small and the default portfolio.       *)
(***************************************************************************)
PositionPrices == {5000, 10000, 10010, 100000}
PositionStops == {4900, 5000, 9990, 10000, 10010, 99900, 100100}
PortfolioSizes == {0, 1000, 100000}
RiskPercents == {5, 20}

InitPosition ==
    /\ pc = "start"
    /\ IdleHelpers
    /\ df = [n |-> 0] /\ result = NoResult
    /\ sr_df = NoFrame /\ sr_out = NoTargets
    /\ opt_args = NoOptArgs /\ opt_out = NoOption
    /\ IdleAnalyze /\ IdleGenerate /\ IdleMain
    /\ \E latest_price \in PositionPrices, stop_loss \in PositionStops,
          portfolio_size \in PortfolioSizes, max_risk_percent \in RiskPercents :
          sr_args = [latest_price |-> latest_price, stop_loss |-> stop_loss,
                     portfolio_size |-> portfolio_size,
                     max_risk_percent |-> max_risk_percent]

\* SupportResistanceCalculator.calculate_position_size(...)
CalculatePositionSize ==
    /\ pc = "start"
    /\ sr_out' = [op |-> "calculate_position_size",
                  levels |-> [support |-> <<>>, resistance |-> <<>>],
                  ret |-> calculate_position_size(sr_args.latest_price,
                                                  sr_args.stop_loss,
                                                  sr_args.portfolio_size,
                                                  sr_args.max_risk_percent)]
    /\ pc' = "done"
    /\ UNCHANGED <<df, result, sr_df, sr_args, opt_args, opt_out>>
    /\ UNCHANGED <<analyze_vars, generate_vars, main_vars, helper_vars>>

NextPosition == CalculatePositionSize

SpecPosition == InitPosition /\ [][NextPosition]_vars

(***************************************************************************)
(* calculate_indicators on frames of 1 to MaxDataSize rows.                *)
(***************************************************************************)
MaxDataSize == 260

Idle ==
    /\ df = [n |-> 0] /\ result = NoResult
    /\ sr_df = NoFrame /\ sr_args = NoArgs /\ sr_out = NoTargets
    /\ opt_args = NoOptArgs /\ opt_out = NoOption
    /\ IdleAnalyze /\ IdleGenerate /\ IdleMain

InitIndicators ==
    /\ pc = "start"
    /\ Idle
    /\ \E data_size \in 1..MaxDataSize : fn_args = [data_size |-> data_size]
    /\ fn_out = NoRecord
    /\ rl_calls = <<>> /\ rl_now = 0 /\ rl_log = <<>>

\* TechnicalAnalysis.calculate_indicators(df), the windows it works with
CalculateIndicators ==
    /\ pc = "start"
    /\ fn_out' = [kind |-> "calculate_indicators",
                  periods |-> IndicatorPeriods(fn_args.data_size)]
    /\ pc' = "done"
    /\ UNCHANGED <<df, result, sr_df, sr_args, sr_out, opt_args, opt_out>>
    /\ UNCHANGED <<analyze_vars, generate_vars, main_vars>>
    /\ UNCHANGED <<fn_args, rl_calls, rl_now, rl_log>>

NextIndicators == CalculateIndicators

SpecIndicators == InitIndicators /\ [][NextIndicators]_vars

(***************************************************************************)
(* cluster_levels on every list of up to MaxCandidates levels, with        *)
(* gaps below, at and above 1% and 2% of the lower level.                  *)
(***************************************************************************)
MaxCandidates == 4

LevelValues == {1000, 1010, 1011, 1020, 1050}
ThresholdPcts == {1, 2}

InitCluster ==
    /\ pc = "start"
    /\ Idle
    /\ \E n \in 0..MaxCandidates, threshold_pct \in ThresholdPcts :
          \E levels \in [1..n -> LevelValues] :
              fn_args = [levels |-> levels, threshold_pct |-> threshold_pct]
    /\ fn_out = NoRecord
    /\ rl_calls = <<>> /\ rl_now = 0 /\ rl_log = <<>>

\* SupportResistanceCalculator.cluster_levels(levels, threshold_pct)
ClusterLevels ==
    /\ pc = "start"
    /\ fn_out' = [kind |-> "cluster_levels",
                  clusters |-> cluster_levels(fn_args.levels,
                                              fn_args.threshold_pct)]
    /\ pc' = "done"
    /\ UNCHANGED <<df, result, sr_df, sr_args, sr_out, opt_args, opt_out>>
    /\ UNCHANGED <<analyze_vars, generate_vars, main_vars>>
    /\ UNCHANGED <<fn_args, rl_calls, rl_now, rl_log>>

NextCluster == ClusterLevels

SpecCluster == InitCluster /\ [][NextCluster]_vars

(***************************************************************************)
(* rate_limit_api_calls (helpers.py): the wrapper keeps the times of the   *)
(* recent calls in the list calls.  Time is counted in whole seconds;      *)
(* rl_now is the clock, rl_log the times at which the wrapped function was *)
(* invoked.  A forced wait ends at the computed time or one second late.   *)
(***************************************************************************)
MaxTime == 8
MaxInvocations == 5

\* calls[:] = [call for call in calls if now - call < time_window]
RecentCalls(calls, now, time_window) ==
    SelectSeq(calls, LAMBDA call : now - call < time_window)

InitRateLimit ==
    /\ pc = "start"
    /\ Idle
    /\ \E max_calls \in {1, 2, 3}, time_window \in {2, 3} :
          fn_args = [max_calls |-> max_calls, time_window |-> time_window]
    /\ fn_out = NoRecord
    /\ rl_calls = <<>> /\ rl_now = 0 /\ rl_log = <<>>

\* the clock advances between two calls
TimePasses ==
    /\ rl_now < MaxTime
    /\ rl_now' = rl_now + 1
    /\ UNCHANGED <<pc, df, result, sr_df, sr_args, sr_out, opt_args, opt_out>>
    /\ UNCHANGED <<analyze_vars, generate_vars, main_vars>>
    /\ UNCHANGED <<fn_args, fn_out, rl_calls, rl_log>>

\* rate_limited_func(*args, **kwargs): one call of the wrapper, through to
\* the invocation of func
RateLimitedFunc ==
    /\ Len(rl_log) < MaxInvocations
    /\ LET recent == RecentCalls(rl_calls, rl_now, fn_args.time_window)
       IN  IF Len(recent) >= fn_args.max_calls
           THEN \E late \in {0, 1} :
                   /\ rl_now' = recent[1] + fn_args.time_window + late
                   /\ rl_calls' = <<rl_now'>>
                   /\ rl_log' = Append(rl_log, rl_now')
           ELSE /\ rl_now' = rl_now
                /\ rl_calls' = Append(recent, rl_now)
                /\ rl_log' = Append(rl_log, rl_now)
    /\ UNCHANGED <<pc, df, result, sr_df, sr_args, sr_out, opt_args, opt_out>>
    /\ UNCHANGED <<analyze_vars, generate_vars, main_vars>>
    /\ UNCHANGED <<fn_args, fn_out>>

NextRateLimit == TimePasses \/ RateLimitedFunc

SpecRateLimit == InitRateLimit /\ [][NextRateLimit]_vars

(***************************************************************************)
(* _fetch_historical_data against a broker whose successive                *)
(* kite.historical_data calls raise ("error"), return nothing ("none") or  *)
(* return rows; one answer more than the loop can ask for is prepared.     *)
(***************************************************************************)
BrokerAnswers == {"error", "none", "rows"}

InitFetch ==
    /\ pc = "start"
    /\ Idle
    /\ \E attempts \in [1..(MaxRetries + 1) -> BrokerAnswers] :
          fn_args = [attempts |-> attempts]
    /\ fn_out = NoRecord
    /\ rl_calls = <<>> /\ rl_now = 0 /\ rl_log = <<>>

\* HistoricalDataFetcher._fetch_historical_data(token, from_date, to_date)
FetchHistoricalData ==
    /\ pc = "start"
    /\ fn_out' = [kind |-> "_fetch_historical_data",
                  ret |-> _fetch_historical_data(fn_args.attempts)]
    /\ pc' = "done"
    /\ UNCHANGED <<df, result, sr_df, sr_args, sr_out, opt_args, opt_out>>
    /\ UNCHANGED <<analyze_vars, generate_vars, main_vars>>
    /\ UNCHANGED <<fn_args, rl_calls, rl_now, rl_log>>

NextFetch == FetchHistoricalData

SpecFetch == InitFetch /\ [][NextFetch]_vars

(***************************************************************************)
(* Properties of generate_signals, checked under SpecSignals               *)
(***************************************************************************)
Returned == pc = "done" /\ ~result.raised

\* C1: every returned confidence lies in [0,100]: neither side's vote count
\* exceeds total_signals, which is 10, or 9 when the volume sub-signal is
\* excluded.
C1_ConfidenceInRange ==
    Returned =>
        /\ 0 <= result.confidence[1]
        /\ result.confidence[1] <= 100 * result.confidence[2]
        /\ df.n > 0 =>
              /\ TotalSignals(df) = (IF df.has_volume THEN 10 ELSE 9)
              /\ BuySignals(df) <= TotalSignals(df)
              /\ SellSignals(df) <= TotalSignals(df)

\* every sub-signal that is counted votes BUY: confidence 100 without volume
C1_Witness ==
    /\ Returned /\ ~df.has_volume /\ result.signal = "BUY"
    /\ BuySignals(df) = 9
    /\ result.confidence[1] = 100 * result.confidence[2]

\* C2: BUY iff buy_votes > sell_votes and buy_votes > 0.3 * total_signals,
\* SELL symmetrically, HOLD in every other case; for BUY and SELL the
\* confidence is winning_votes / total_signals * 100.
C2_Aggregation ==
    (Returned /\ df.n > 0) =>
        LET buy == BuySignals(df)
            sell == SellSignals(df)
            total == TotalSignals(df)
            isBuy == buy > sell /\ 10 * buy > 3 * total
            isSell == sell > buy /\ 10 * sell > 3 * total
        IN  /\ (result.signal = "BUY") <=> isBuy
            /\ (result.signal = "SELL") <=> isSell
            /\ (result.signal = "HOLD") <=> (~isBuy /\ ~isSell)
            /\ isBuy => result.confidence = <<buy * 100, total>>
            /\ isSell => result.confidence = <<sell * 100, total>>

\* the winning side holds exactly 30% of the ten votes: HOLD
C2_Witness ==
    /\ Returned /\ df.n > 0 /\ df.has_volume
    /\ SellSignals(df) = 3 /\ BuySignals(df) = 2
    /\ result.signal = "HOLD"

\* C3: HOLD on a non-empty frame has confidence exactly 50 whatever the
\* vote split; confidence 0 is returned only for the empty frame, whose
\* result is (HOLD, 0).
C3_HoldConfidence ==
    Returned =>
        /\ (df.n > 0 /\ result.signal = "HOLD") => result.confidence = <<50, 1>>
        /\ result.confidence[1] = 0 => df.n = 0
        /\ df.n = 0 => (result.signal = "HOLD" /\ result.confidence = <<0, 1>>)

\* an uneven split below the threshold still reports 50
C3_Witness ==
    /\ Returned /\ df.n > 0 /\ result.signal = "HOLD"
    /\ BuySignals(df) = 3 /\ SellSignals(df) = 1
    /\ result.confidence = <<50, 1>>

\* C4: without volume data the volume sub-signal casts no vote and the
\* denominator of both the 30% threshold and the confidence is 9; with
\* volume data it is 10, also when the volume sub-signal is neutral.
C4_VolumeDenominator ==
    (Returned /\ df.n > 0) =>
        LET total == IF df.has_volume THEN 10 ELSE 9
            buy == BuySignals(df)
            sell == SellSignals(df)
        IN  /\ ~df.has_volume => Votes(df)[9] = "HOLD"
            /\ result.signal = "BUY" =>
                  (10 * buy > 3 * total /\ result.confidence = <<buy * 100, total>>)
            /\ result.signal = "SELL" =>
                  (10 * sell > 3 * total /\ result.confidence = <<sell * 100, total>>)
            /\ result.signal = "HOLD" =>
                  ~(buy > sell /\ 10 * buy > 3 * total)

\* three votes of nine pass the threshold that three of ten would miss,
\* although the frame's volume would have spiked
C4_Witness ==
    /\ Returned /\ ~df.has_volume /\ df.n > 1
    /\ VolumeSpike(df.latest) /\ df.latest.close > df.prev_close
    /\ BuySignals(df) = 3 /\ result.signal = "BUY"
    /\ result.confidence = <<300, 9>>

(***************************************************************************)
(* Properties of the support/resistance calculator, checked under          *)
(* SpecLevels                                                              *)
(***************************************************************************)
LevelsDone == pc = "done" /\ sr_out.op # ""
TargetsDone == pc = "done" /\ sr_out.op = "find_target_and_stop_loss"
DaysReturned == sr_out.ret[Len(sr_out.ret)]
TargetComputed == TargetsDone /\ Len(sr_out.ret) = 4 /\ sr_out.ret[1] # None

\* C5: for a non-empty frame every returned support level is strictly
\* below the latest close and every returned resistance level strictly
\* above it, supports descend, resistances ascend and each list has at most
\* max_levels entries, for the values as returned (rounded to 2 decimals).
C5_LevelsAroundClose ==
    (LevelsDone /\ Len(sr_df.bars) > 0) =>
        LET support == sr_out.levels.support
            resistance == sr_out.levels.resistance
        IN  /\ \A i \in DOMAIN support : support[i] < sr_df.close
            /\ \A i \in DOMAIN resistance : resistance[i] > sr_df.close
            /\ \A i \in 1..(Len(support) - 1) : support[i] >= support[i + 1]
            /\ \A i \in 1..(Len(resistance) - 1) : resistance[i] <= resistance[i + 1]
            /\ Len(support) <= MaxLevels
            /\ Len(resistance) <= MaxLevels

\* C6 as stated: days_to_target is >= 1 on every return path and, whenever
\* confidence > 0, at least round(100 / confidence).
C6_DaysFloorOnEveryPath ==
    TargetsDone =>
        /\ DaysReturned >= 1
        /\ sr_args.confidence[1] > 0 =>
              DaysReturned >= PyRound(100 * sr_args.confidence[2],
                                      sr_args.confidence[1])

\* C6 amended: days_to_target is >= 1 on every return path; it is at least
\* round(100 / confidence) when confidence > 0 and a target was computed,
\* and it is the default 1 on the empty-frame and failure paths.
C6_DaysToTarget ==
    TargetsDone =>
        /\ DaysReturned >= 1
        /\ (TargetComputed /\ sr_args.confidence[1] > 0) =>
              DaysReturned >= PyRound(100 * sr_args.confidence[2],
                                      sr_args.confidence[1])
        /\ ~TargetComputed => DaysReturned = 1

\* the confidence floor (3 days at 33.3%) lifts a one-day distance
C6_Witness ==
    /\ TargetComputed /\ sr_args.confidence = <<300, 9>>
    /\ LatestAtr(sr_df) > 0
    /\ PyRound(Abs(sr_out.ret[1][1] - sr_df.close), LatestAtr(sr_df)) <= 1
    /\ DaysReturned = 3

\* C7: BUY takes the first resistance as target (close + ATR when there is
\* none) and the first support as stop (close - ATR when there is none),
\* SELL mirrors it, HOLD uses close + ATR and close - ATR whatever levels
\* were found.  The values returned are these, rounded to 2 decimals.
C7_TargetStopSelection ==
    TargetComputed =>
        LET support == sr_out.levels.support
            resistance == sr_out.levels.resistance
            up == sr_df.close + LatestAtr(sr_df)
            down == sr_df.close - LatestAtr(sr_df)
            above == IF resistance # <<>> THEN resistance[1] ELSE up
            below == IF support # <<>> THEN support[1] ELSE down
            target == sr_out.ret[1][1]
            stop == sr_out.ret[2][1]
        IN  /\ sr_args.signal = "BUY" =>
                  (target = Round2(above, 1) /\ stop = Round2(below, 1))
            /\ sr_args.signal = "SELL" =>
                  (target = Round2(below, 1) /\ stop = Round2(above, 1))
            /\ sr_args.signal = "HOLD" =>
                  (target = Round2(up, 1) /\ stop = Round2(down, 1))

\* HOLD ignores a nearer resistance and a nearer support
C7_Witness ==
    /\ TargetComputed /\ sr_args.signal = "HOLD"
    /\ sr_out.levels.resistance # <<>> /\ sr_out.levels.support # <<>>
    /\ sr_out.ret[1][1] > sr_out.levels.resistance[1]
    /\ sr_out.ret[2][1] < sr_out.levels.support[1]

(***************************************************************************)
(* Properties of the strike selection, checked under SpecOptions           *)
(***************************************************************************)
AtmDone == pc = "done" /\ opt_out.op = "find_atm_strike"
StrikeDone == pc = "done" /\ opt_out.op = "select_option_strike"

\* the strike step of the price's tier, in rupees
TierStep(current_price) ==
    IF current_price < Rupees(1000) THEN 5
    ELSE IF current_price < Rupees(5000) THEN 100
    ELSE 500

C9_OneStepFromAtm ==
    StrikeDone =>
        LET step == Rupees(TierStep(opt_args.current_price))
            selected == opt_out.ret[1]
            atm == opt_out.ret[3]
        IN  /\ opt_out.ret[2] = "CE" => selected = atm + step
            /\ opt_out.ret[2] = "PE" => selected = atm - step

\* C10: BUY always selects CE and SELL always PE; HOLD selects CE when the
\* price is strictly above the ATM strike and PE otherwise, also when the
\* price equals the ATM strike.
C10_OptionType ==
    StrikeDone =>
        LET price == opt_args.current_price
            atm == opt_out.ret[3]
        IN  /\ opt_args.signal = "BUY" => opt_out.ret[2] = "CE"
            /\ opt_args.signal = "SELL" => opt_out.ret[2] = "PE"
            /\ opt_args.signal = "HOLD" =>
                  (opt_out.ret[2] = (IF price > atm THEN "CE" ELSE "PE"))

\* HOLD at a price that is its own ATM strike selects the put
C10_Witness ==
    /\ StrikeDone /\ opt_args.signal = "HOLD"
    /\ opt_args.current_price = opt_out.ret[3]
    /\ opt_out.ret[2] = "PE"


(***************************************************************************)
(* Properties of analyze_option, checked under SpecAnalyze                 *)
(***************************************************************************)
\* the last Thursday of a month, found by search over its days
LastThursday(y, m) ==
    Date(y, m, CHOOSE d \in 1..DaysInMonth(y, m) :
                  /\ weekday(Date(y, m, d)) = 3
                  /\ d + 7 > DaysInMonth(y, m))

LastThursdayOfNextMonth(date) ==
    IF date.month = 12 THEN LastThursday(date.year + 1, 1)
    ELSE LastThursday(date.year, date.month + 1)

AnalyzeDone == pc \in {"done", "repeated"} /\ opt_out.op = "analyze_option"

\* the stock has a price and a contract was selected for it
ContractSelected ==
    /\ AnalyzeDone
    /\ "trading_symbol" \in DOMAIN opt_out.ret
    /\ opt_out.ret.option_info.selected_strike # None

\* the broker gives no quote for the selected contract: the chain call
\* raises, the chain is empty, or it has no row for the strike and type
NoLiveQuote ==
    \/ opt_env.broker # "listed"
    \/ opt_env.listing \in {"none", "neighbour"}

\* intrinsic value plus 5% of the close, in rupees, from the arguments
IntrinsicPlusPremium ==
    LET close == opt_args.df_stock.close
        strike == opt_out.ret.option_info.selected_strike[1]
        call == opt_out.ret.option_info.strike_type = Some("CE")
        intrinsic == IF call THEN Max(0, close - strike) ELSE Max(0, strike - close)
    IN  Lowest(100 * intrinsic + 5 * close, 100 * PriceScale)

\* C11: whenever the selected contract has no live quote (the chain fetch
\* fails, the chain is empty, or it has no row for the strike and type),
\* analyze_option reports intrinsic value plus 5% of the close as the
\* option's current price and a target and stop derived from it: the option
\* prices of a priced stock are never left unset.
C11_EstimateWhenNoQuote ==
    (ContractSelected /\ NoLiveQuote) =>
        /\ opt_out.ret.option_prices.current_price =
              Some(RoundPaise(IntrinsicPlusPremium[1], IntrinsicPlusPremium[2]))
        /\ opt_out.ret.option_prices.target_price # None
        /\ opt_out.ret.option_prices.stop_loss # None

\* analyze_option reports option prices
HasOptionPrice ==
    ContractSelected /\ opt_out.ret.option_prices.current_price # None

\* the option price the targets are derived from, in rupees: the live last
\* price, or the estimate when the contract has no live quote
OptionPriceP ==
    IF NoLiveQuote THEN IntrinsicPlusPremium
    ELSE <<opt_out.ret.option_prices.current_price[1], 100>>

\* |target - close| / close, or 0.05 without an underlying target
MoveRatio ==
    IF opt_args.target_price = None THEN <<5, 100>>
    ELSE Lowest(Abs(opt_args.target_price[1] - opt_args.df_stock.close),
                opt_args.df_stock.close)

FavourablePairing ==
    \/ opt_out.ret.option_info.strike_type = Some("CE") /\ opt_args.signal = "BUY"
    \/ opt_out.ret.option_info.strike_type = Some("PE") /\ opt_args.signal = "SELL"

\* paise is num / den rupees rounded to the nearest 0.01 (a tie may go either way)
Nearest(paise, num, den) ==
    LET q == (100 * num) \div den
        r == (100 * num) % den
    IN  \/ paise = q /\ 2 * r <= den
        \/ paise = q + 1 /\ 2 * r >= den

\* the target and stop formulas on the option price P
TargetStopFormulas ==
    LET P == OptionPriceP
        ratio == MoveRatio
        target == opt_out.ret.option_prices.target_price[1]
        stop == opt_out.ret.option_prices.stop_loss[1]
    IN  IF FavourablePairing
        THEN /\ Nearest(target, P[1] * (ratio[2] + 2 * ratio[1]), P[2] * ratio[2])
             /\ Nearest(stop, 7 * P[1], 10 * P[2])
        ELSE /\ Nearest(target, 5 * P[1], 10 * P[2])
             /\ Nearest(stop, 13 * P[1], 10 * P[2])

\* C12 as stated: with an option price P, a favourable pairing (CE with BUY,
\* PE with SELL) gets target = P * (1 + 2 * |target - close| / close) and
\* stop = 0.7 * P, so that stop < P <= target; every other pairing gets
\* target = 0.5 * P and stop = 1.3 * P; the ratio is 0.05 without an
\* underlying target.
C12_StopBelowPrice ==
    HasOptionPrice =>
        /\ TargetStopFormulas
        /\ FavourablePairing =>
              /\ opt_out.ret.option_prices.stop_loss[1] * OptionPriceP[2]
                    < 100 * OptionPriceP[1]
              /\ 100 * OptionPriceP[1]
                    <= opt_out.ret.option_prices.target_price[1] * OptionPriceP[2]

\* C12, amended: the formulas hold with each value rounded to 2 decimals;
\* for a favourable pairing stop <= reported current price <= target, and
\* stop < current price once the price is at least 0.05 (a live last price
\* of 0 gives target = stop = 0).
C12_TargetStopFormulas ==
    HasOptionPrice =>
        LET current == opt_out.ret.option_prices.current_price[1]
            target == opt_out.ret.option_prices.target_price[1]
            stop == opt_out.ret.option_prices.stop_loss[1]
        IN  /\ TargetStopFormulas
            /\ FavourablePairing =>
                  /\ stop <= current /\ current <= target
                  /\ current >= 5 => stop < current

\* a call bought on BUY at a live 12.50 with the underlying target 20 rupees
\* away: stop 8.75 and a target above the price
C12_Witness ==
    /\ HasOptionPrice /\ ~NoLiveQuote
    /\ opt_args.signal = "BUY"
    /\ opt_args.target_price = Some(opt_args.df_stock.close + Rupees(20))
    /\ opt_out.ret.option_prices.current_price = Some(1250)
    /\ opt_out.ret.option_prices.stop_loss = Some(875)
    /\ opt_out.ret.option_prices.target_price[1] > 1250

\* the expiry analyze_option reports, as a date
ReportedExpiry ==
    Date(opt_out.ret.expiry_date[1][1], opt_out.ret.expiry_date[1][2],
         opt_out.ret.expiry_date[1][3])

\* the reported option price was read from a contract of another expiry
QuoteOfOtherExpiry ==
    /\ opt_env.broker = "listed" /\ opt_env.listing = "later_expiry"
    /\ opt_out.ret.option_prices.current_price # None
    /\ opt_env.listed[1].expiry # ReportedExpiry

\* C15: analyze_option applies one expiry policy throughout: the expiry it
\* chooses is the monthly one (a last Thursday), the trading symbol encodes
\* it in the monthly MonYY style (symbol + MonYY + strike + type, no day of
\* month), and the chain quote it uses belongs to that same expiry.
C15_SingleExpiryPolicy ==
    ContractSelected =>
        LET expiry == ReportedExpiry
            trading_symbol == opt_out.ret.trading_symbol[1]
        IN  /\ expiry = LastThursday(expiry.year, expiry.month)
            /\ trading_symbol.symbol = opt_args.symbol
            /\ trading_symbol.expiry = [day |-> None,
                                        month |-> MonthAbbr[expiry.month],
                                        year |-> expiry.year % 100]
            /\ Some(trading_symbol.strike) = opt_out.ret.option_info.selected_strike
            /\ Some(trading_symbol.option_type) = opt_out.ret.option_info.strike_type
            /\ ~QuoteOfOtherExpiry

\* both runs of analyze_option have returned
Repeated == pc = "repeated" /\ opt_first.op = "analyze_option"

\* C16: analyze_option is repeatable: run twice with the same symbol,
\* signal, series and target on the same date, the broker giving no live
\* quote, it returns the same strikes, option type, trading symbol, expiry
\* date and option prices both times; what the first run leaves behind
\* (the option-chain cache file) does not change the second.
C16_Repeatable ==
    (Repeated /\ NoLiveQuote) =>
        /\ opt_out.raised = opt_first.raised
        /\ opt_out.ret.option_info = opt_first.ret.option_info
        /\ opt_out.ret.option_prices = opt_first.ret.option_prices
        /\ DOMAIN opt_out.ret = DOMAIN opt_first.ret
        /\ "trading_symbol" \in DOMAIN opt_out.ret =>
              /\ opt_out.ret.trading_symbol = opt_first.ret.trading_symbol
              /\ opt_out.ret.expiry_date = opt_first.ret.expiry_date
              /\ opt_out.ret.option_signal = opt_first.ret.option_signal

\* the first run cached a chain without the selected contract and the second
\* run, one second later, read it back from the cache
C16_Witness ==
    /\ Repeated /\ ContractSelected
    /\ opt_env.broker = "listed" /\ opt_env.listing = "neighbour"
    /\ opt_env.elapsed = 1
    /\ ReportedExpiry \in DOMAIN opt_cache
    /\ opt_out.ret.option_prices = NoPrices

\* the series gives no price: it is empty, has no close column, or closes at 0
PriceMissing ==
    \/ opt_args.df_stock.empty
    \/ ~opt_args.df_stock.has_close
    \/ opt_args.df_stock.close = 0

\* select_option_strike returned a strike that counts as none
NoStrikeSelected ==
    /\ ~PriceMissing
    /\ select_option_strike(opt_args.df_stock.close, opt_args.signal)[1] = 0

\* C20: analyze_option never raises; when the price is missing (empty series)
\* or no strike or type could be selected, the structure returned has
\* underlying_strike, selected_strike, strike_type, iv_percentile,
\* max_pain_price and the three option prices all None, and
\* open_interest_analysis is "Option data not available".
C20_EmptyOptionStructure ==
    AnalyzeDone =>
        /\ ~opt_out.raised
        /\ (PriceMissing \/ NoStrikeSelected) =>
              /\ opt_out.ret.option_info.underlying_strike = None
              /\ opt_out.ret.option_info.selected_strike = None
              /\ opt_out.ret.option_info.strike_type = None
              /\ opt_out.ret.option_info.iv_percentile = None
              /\ opt_out.ret.option_info.max_pain_price = None
              /\ opt_out.ret.option_info.open_interest_analysis.text
                    = "Option data not available"
              /\ opt_out.ret.option_prices.current_price = None
              /\ opt_out.ret.option_prices.target_price = None
              /\ opt_out.ret.option_prices.stop_loss = None

\* a priced stock for which the selected strike is 0, analysed
C20_Witness ==
    /\ AnalyzeDone /\ NoStrikeSelected
    /\ DOMAIN opt_out.ret = {"option_info", "option_prices"}

(***************************************************************************)
(* Properties of _determine_option_signal, checked under SpecAnalyze       *)
(***************************************************************************)
OptionSignalDone == pc = "done" /\ opt_out.op = "_determine_option_signal"

\* C13: _determine_option_signal maps (BUY, CE) to "Buy CALL Option",
\* (BUY, PE) to "Sell PUT Option", (SELL, PE) to "Buy PUT Option",
\* (SELL, CE) to "Sell CALL Option", HOLD to "Buy CALL Option" for CE and
\* "Buy PUT Option" for PE, and returns "HOLD" only when the stock signal or
\* the option type is missing; analyze_option reports the same text for the
\* signal and the type it selected.
C13_OptionSignalText ==
    /\ OptionSignalDone =>
          LET s == opt_out.ret.stock_signal
              t == opt_out.ret.option_type
              text == opt_out.ret.option_signal
          IN  /\ (s = "BUY" /\ t = "CE") => text = "Buy CALL Option"
              /\ (s = "BUY" /\ t = "PE") => text = "Sell PUT Option"
              /\ (s = "SELL" /\ t = "PE") => text = "Buy PUT Option"
              /\ (s = "SELL" /\ t = "CE") => text = "Sell CALL Option"
              /\ (s = "HOLD" /\ t = "CE") => text = "Buy CALL Option"
              /\ (s = "HOLD" /\ t = "PE") => text = "Buy PUT Option"
              /\ (text = "HOLD") <=> (s = "" \/ t = "")
    /\ ContractSelected =>
          LET s == opt_args.signal
              t == opt_out.ret.option_info.strike_type
              text == opt_out.ret.option_signal
          IN  /\ text # "HOLD"
              /\ s = "BUY" => text = "Buy CALL Option"
              /\ s = "SELL" => text = "Buy PUT Option"
              /\ (s = "HOLD" /\ t = Some("CE")) => text = "Buy CALL Option"
              /\ (s = "HOLD" /\ t = Some("PE")) => text = "Buy PUT Option"

\* a HOLD stock signal with a put gives a directional text, not the no-op
C13_Witness ==
    /\ OptionSignalDone
    /\ opt_out.ret.stock_signal = "HOLD" /\ opt_out.ret.option_type = "PE"
    /\ opt_out.ret.option_signal = "Buy PUT Option"

(***************************************************************************)
(* Properties of get_nearest_expiry, checked under SpecExpiry              *)
(***************************************************************************)
ExpiryDone == pc = "done" /\ opt_out.op = "get_nearest_expiry"

\* C14: once the current expiry is no longer tradable the selection rolls:
\* when today is the expiry day (the last Thursday of the month) and the
\* market has already closed, get_nearest_expiry returns the next month's
\* last Thursday, not today.
C14_RollsAfterCloseOnExpiryDay ==
    ( /\ ExpiryDone
      /\ opt_env.today = LastThursday(opt_env.today.year, opt_env.today.month)
      /\ opt_env.after_close )
    => /\ opt_out.ret = LastThursdayOfNextMonth(opt_env.today)
       /\ opt_out.ret # opt_env.today

(***************************************************************************)
(* Properties of generate_signal, checked under SpecGenerate               *)
(***************************************************************************)
GenerateDone == pc = "done" /\ gen_out.kind = "generate_signal"

\* C17: generate_signal never raises, whatever the historical data (None,
\* empty, too short, missing columns) and whatever the quote, market-status
\* and option-chain calls do: every failure path returns a record, also
\* the paths that build the empty record inside an exception handler.
C17_NeverRaises == GenerateDone => ~gen_out.raised

\* with a market-status call that answers, every path returns a record
GenerateReturnsWhenStatusAnswers ==
    (GenerateDone /\ \A k \in 1..3 : gen_args.market[k] # "raises")
        => ~gen_out.raised

(***************************************************************************)
(* Properties of main, checked under SpecMain                              *)
(***************************************************************************)
RunEnded == pc \in {"exited", "finished"}

ListedSymbols == {stocks[k] : k \in 1..Len(stocks)}

\* C18: in main a failure while fetching the data or generating the signal
\* of one symbol does not abort the run: the later symbols of the stocks
\* list are still fetched and analysed and the results of the symbols
\* already processed are written to the output files.
C18_FailureDoesNotAbort ==
    (RunEnded /\ Len(stocks) > 0) =>
        /\ pc = "finished"
        /\ exit_code = Some(0)
        /\ output = Some(signals)

\* the fields of the fully-empty record
IsEmptyRecord(r) ==
    /\ r.signal_info.signal = "HOLD"
    /\ r.signal_info.direction = "NEUTRAL"
    /\ r.signal_info.confidence_percent = 0
    /\ r.signal_info.profit_probability_percent = 0
    /\ r.price_targets.target_price = None
    /\ r.price_targets.stop_loss_price = None
    /\ r.price_targets.risk_reward_ratio = 0
    /\ r.price_targets.days_to_target = 1
    /\ r.support_resistance.support_levels = <<>>
    /\ r.support_resistance.resistance_levels = <<>>

\* the symbol got no data, or its technical analysis failed
Failed(symbol) ==
    \/ symbol \notin historical_data
    \/ world.symbols[symbol].generate # "analysed"

\* C19: the output holds exactly one record per symbol of the stocks list;
\* a symbol whose data is missing or whose analysis failed has the
\* fully-empty record (HOLD, NEUTRAL, confidence and profit probability 0.0,
\* no target and stop, risk/reward 0.0, days_to_target 1, no support and
\* resistance levels) and is not left out.
C19_OneRecordPerSymbol ==
    pc = "finished" =>
        /\ DOMAIN output[1] = ListedSymbols
        /\ \A symbol \in ListedSymbols :
              Failed(symbol) => IsEmptyRecord(output[1][symbol])

\* a symbol whose analysis failed inside generate_signal does get the
\* fully-empty record
FailedAnalysisGivesEmptyRecord ==
    pc = "finished" =>
        \A symbol \in DOMAIN output[1] :
            Failed(symbol) => IsEmptyRecord(output[1][symbol])

(***************************************************************************)
(* Properties of calculate_position_size, checked under SpecPosition       *)
(***************************************************************************)
\* calculate_position_size has run for a portfolio that is not empty
PositionDone ==
    /\ pc = "done" /\ sr_out.op = "calculate_position_size"
    /\ sr_args.portfolio_size > 0

RiskPerShare == Abs(sr_args.latest_price - sr_args.stop_loss)

\* n = floor(portfolio_size * max_risk_percent / 100 / risk_per_share),
\* written without division: n * risk <= amount < (n + 1) * risk, with the
\* amount and the risk both brought to thousandths of a rupee
IsFloorOfRisk(n) ==
    LET amount == sr_args.portfolio_size * sr_args.max_risk_percent
        risk == 10 * RiskPerShare
    IN  n * risk <= amount /\ amount < (n + 1) * risk

C30_PositionAffordable ==
    PositionDone =>
        /\ sr_out.ret.position_size <= 100 * sr_args.portfolio_size
        /\ sr_out.ret.portfolio_percent <= 1000

(***************************************************************************)
(* Properties of calculate_indicators, checked under SpecIndicators        *)
(***************************************************************************)
IndicatorsDone == pc = "done" /\ fn_out.kind = "calculate_indicators"

Windows == DOMAIN NominalPeriods

\* the windows whose floor in the code is 1
FlooredAtOne ==
    {"stoch_smooth", "mom_1d_period", "mom_5d_period", "mom_20d_period"}

\* C22 as stated: for every data size >= 1 every lookback window
\* calculate_indicators derives is at most its nominal period and never
\* below 2.
C22_WindowsAtLeastTwo ==
    IndicatorsDone =>
        \A w \in Windows :
            /\ fn_out.periods[w] <= NominalPeriods[w]
            /\ fn_out.periods[w] >= 2

\* C22, amended: every window is at most its nominal period; the windows
\* other than the stochastic smoothing and the three momentum horizons are
\* never below 2, and those four are never below 1 (and are 1 for every
\* frame of fewer than 10 rows).
C22_WindowsWithinBounds ==
    IndicatorsDone =>
        \A w \in Windows :
            /\ fn_out.periods[w] <= NominalPeriods[w]
            /\ fn_out.periods[w] >= IF w \in FlooredAtOne THEN 1 ELSE 2
            /\ (w \in FlooredAtOne /\ fn_args.data_size < 10) =>
                  fn_out.periods[w] = 1

\* a one-row frame: every window is at its floor
C22_Witness ==
    /\ IndicatorsDone /\ fn_args.data_size = 1
    /\ fn_out.periods.rsi_period = 2 /\ fn_out.periods.stoch_smooth = 1
    /\ fn_out.periods.sma_200_period = 5

(***************************************************************************)
(* The strong-uptrend scenario of generate_signals, checked under          *)
(* SpecSignals                                                             *)
(***************************************************************************)
\* the latest row describes a strong uptrend
StrongUptrend(f) ==
    /\ f.n >= 1
    /\ f.latest.rsi > 70
    /\ f.latest.macd > f.latest.macd_signal
    /\ f.latest.adx > 25 /\ f.latest.adx_pos > f.latest.adx_neg
    /\ f.latest.close > f.latest.sma_50 /\ f.latest.sma_50 > f.latest.sma_200
    /\ f.latest.close > f.latest.ema_21

\* C23: for every latest indicator row describing a strong uptrend (RSI
\* above 70, MACD above its signal line, ADX > 25 with +DI > -DI, close
\* above SMA50 above SMA200, close above EMA21) generate_signals returns BUY
\* with confidence >= 60.
C23_UptrendIsConfidentBuy ==
    (pc = "done" /\ StrongUptrend(df) /\ ~result.raised) =>
        /\ result.signal = "BUY"
        /\ result.confidence[1] >= 60 * result.confidence[2]

\* in a strong uptrend the RSI sub-signal votes SELL and four sub-signals
\* vote BUY, whatever the other five do
UptrendVotes ==
    (pc = "done" /\ StrongUptrend(df)) =>
        /\ RsiVote(df.latest) = "SELL"
        /\ BuySignals(df) >= 4 /\ SellSignals(df) >= 1

(***************************************************************************)
(* Properties of cluster_levels, checked under SpecCluster                 *)
(***************************************************************************)
ClusterDone == pc = "done" /\ fn_out.kind = "cluster_levels"

SortedInput == Sorted(fn_args.levels)

\* the places of the sorted input where a cluster starts: the first, and
\* every member whose gap to the preceding member exceeds threshold_pct
\* percent of that member
ClusterStarts ==
    {i \in 1..Len(SortedInput) :
        \/ i = 1
        \/ 100 * (SortedInput[i] - SortedInput[i - 1])
              > SortedInput[i - 1] * fn_args.threshold_pct}

\* the k-th start, and the last member of the run it opens
StartOf(k) ==
    CHOOSE i \in ClusterStarts :
        Cardinality({j \in ClusterStarts : j < i}) = k - 1

EndOf(k) ==
    IF k = Cardinality(ClusterStarts) THEN Len(SortedInput)
    ELSE StartOf(k + 1) - 1

\* the sum and the size of the k-th maximal run
RunMean(k) ==
    <<Sum(SubSeq(SortedInput, StartOf(k), EndOf(k))), EndOf(k) - StartOf(k) + 1>>

\* C24: cluster_levels on a non-empty list returns, in ascending order, the
\* mean of each maximal run of the sorted input in which every consecutive
\* gap is <= threshold_pct percent of the preceding member; a new cluster
\* starts exactly when a gap exceeds the threshold, the trailing cluster is
\* always emitted, every input value belongs to exactly one cluster, and an
\* empty input gives an empty output.
C24_ClustersAreRunMeans ==
    ClusterDone =>
        /\ Len(fn_out.clusters) = Cardinality(ClusterStarts)
        /\ \A k \in 1..Len(fn_out.clusters) : fn_out.clusters[k] = RunMean(k)
        /\ \A k \in 1..(Len(fn_out.clusters) - 1) :
              RatLess(fn_out.clusters[k], fn_out.clusters[k + 1])
        /\ Sum([k \in 1..Len(fn_out.clusters) |-> fn_out.clusters[k][2]])
              = Len(fn_args.levels)
        /\ Sum([k \in 1..Len(fn_out.clusters) |-> fn_out.clusters[k][1]])
              = Sum(fn_args.levels)
        /\ fn_args.levels = <<>> => fn_out.clusters = <<>>

\* an unsorted list with a gap exactly at the threshold (1000 to 1010, one
\* cluster) and a gap above it (1010 to 1050, a second, trailing cluster)
C24_Witness ==
    /\ ClusterDone
    /\ fn_args.levels = <<1050, 1010, 1000>> /\ fn_args.threshold_pct = 1
    /\ fn_out.clusters = << <<2010, 2>>, <<1050, 1>> >>

(***************************************************************************)
(* Properties of rate_limit_api_calls, checked under SpecRateLimit         *)
(***************************************************************************)
\* C25: a function wrapped by rate_limit_api_calls is invoked at most
\* max_calls times within any interval of time_window seconds, for every
\* sequence of call times, also right after a forced wait: any max_calls + 1
\* successive invocations span at least time_window seconds.
C25_AtMostMaxCallsPerWindow ==
    "max_calls" \in DOMAIN fn_args =>
        \A i \in 1..(Len(rl_log) - fn_args.max_calls) :
            rl_log[i + fn_args.max_calls] - rl_log[i] >= fn_args.time_window

\* the list of recorded calls itself never grows beyond max_calls
RecordedCallsWithinLimit ==
    "max_calls" \in DOMAIN fn_args => Len(rl_calls) <= fn_args.max_calls

(***************************************************************************)
(* Properties of _fetch_historical_data, checked under SpecFetch           *)
(***************************************************************************)
FetchDone == pc = "done" /\ fn_out.kind = "_fetch_historical_data"

\* the calls, among the first three, that do not raise
Answered == {i \in 1..3 : fn_args.attempts[i] # "error"}

FirstAnswered == CHOOSE i \in Answered : \A j \in Answered : i <= j

\* C26: _fetch_historical_data ends after at most 3 calls to the broker: it
\* returns the first successful non-empty response as a frame, returns an
\* empty frame at once (no retry) when a call succeeds with no data, and
\* returns an empty frame after the third consecutive failing call.
C26_AtMostThreeCalls ==
    FetchDone =>
        /\ fn_out.ret.calls <= 3
        /\ Answered = {} => fn_out.ret.empty /\ fn_out.ret.calls = 3
        /\ Answered # {} =>
              /\ fn_out.ret.calls = FirstAnswered
              /\ fn_out.ret.empty = (fn_args.attempts[FirstAnswered] = "none")

\* one failing call, then a call without data while the next would have
\* returned rows: the empty frame is returned after the second call
C26_Witness ==
    /\ FetchDone
    /\ fn_args.attempts[1] = "error" /\ fn_args.attempts[2] = "none"
    /\ fn_args.attempts[3] = "rows"
    /\ fn_out.ret.empty /\ fn_out.ret.calls = 2

C28_PositiveSelectedStrike ==
    StrikeDone /\ opt_args.current_price > 0 => opt_out.ret[1] > 0

\* every selected strike of a call is positive
CallStrikePositive ==
    StrikeDone /\ opt_out.ret[2] = "CE" => opt_out.ret[1] > 0

\* a put strike is positive exactly when the ATM strike exceeds the offset
PutStrikePositiveAboveOffset ==
    StrikeDone /\ opt_out.ret[2] = "PE" =>
        (opt_out.ret[1] > 0 <=> opt_out.ret[3] > StrikeOffset(opt_args.current_price))

(***************************************************************************)
(* Further properties of find_target_and_stop_loss, checked under          *)
(* SpecLevels                                                              *)
(***************************************************************************)
\* C29: for a BUY signal on a non-empty frame with ATR > 0 the returned
\* values satisfy stop_loss < latest close < target_price, and for a SELL
\* signal target_price < latest close < stop_loss, whether they come from
\* the levels or from the ATR fallback, after the rounding to 2 decimals.
C29_TargetAndStopAroundClose ==
    (TargetComputed /\ LatestAtr(sr_df) > 0) =>
        LET target == sr_out.ret[1][1]
            stop == sr_out.ret[2][1]
        IN  /\ sr_args.signal = "BUY" => (stop < sr_df.close /\ sr_df.close < target)
            /\ sr_args.signal = "SELL" => (target < sr_df.close /\ sr_df.close < stop)

\* what does hold after the rounding: the close is never on the wrong side
TargetAndStopNotAcrossClose ==
    (TargetComputed /\ LatestAtr(sr_df) > 0) =>
        LET target == sr_out.ret[1][1]
            stop == sr_out.ret[2][1]
        IN  /\ sr_args.signal = "BUY" => (stop <= sr_df.close /\ sr_df.close <= target)
            /\ sr_args.signal = "SELL" => (target <= sr_df.close /\ sr_df.close <= stop)

\* with an ATR of at least 0.01 the inequalities are strict
TargetAndStopStrictForWholeAtr ==
    (TargetComputed /\ LatestAtr(sr_df) >= Grain) =>
        LET target == sr_out.ret[1][1]
            stop == sr_out.ret[2][1]
        IN  /\ sr_args.signal = "BUY" => (stop < sr_df.close /\ sr_df.close < target)
            /\ sr_args.signal = "SELL" => (target < sr_df.close /\ sr_df.close < stop)

=============================================================================
